---- MODULE Spec2Model ----
(***************************************************************************)
(* Model of the Synacor Challenge toolchain (89netraM/synacor_challenge).  *)
(*                                                                         *)
(* Part 1: the virtual machine of src/runtime/data.rs and                  *)
(* src/runtime/vm.rs.  Data is the record [memory_changes, registers,      *)
(* stack] over the immutable image `memory`; every opcode handler is an    *)
(* operator from (Data, pc, input, output) to the Action it returns        *)
(* together with the Data and streams it leaves behind, and VM::step /     *)
(* VM::run are the action Step.                                            *)
(*                                                                         *)
(* Part 2: the disassembler of src/compiler/decompilation.rs and the       *)
(* assembler of src/compiler/compilation (parser.rs, compiler.rs).  Text   *)
(* is a sequence of lines, a line the sequence of its whitespace-separated *)
(* parts, a part the sequence of its glyphs; one action is one iteration   *)
(* of the loop of decompile, of parse or of compile.                       *)
(*                                                                         *)
(* Part 3: the header collection of the debugger                           *)
(* (src/runtime/debugger/header_collection.rs): one action per call of add *)
(* and of clear, on lines that are sequences of characters.                *)
(***************************************************************************)
EXTENDS Integers, Sequences, FiniteSets, TLC

VARIABLES
    memory,          \* Data.memory: the loaded image, addresses 0..len-1
    memory_changes,  \* Data.memory_changes: the overlay, address -> word
    registers,       \* Data.registers: [u16; 8]
    stack,           \* Data.stack: Vec<u16>, top is the last element
    pointer,         \* VM.pointer
    input,           \* bytes the input stream still holds
    output,          \* UTF-16 code units written to the output stream
    running,         \* the AtomicBool of VM::run, cleared by the Ctrl-C handler
    overflow_checks, \* TRUE: build that panics on integer overflow (debug)
    step_result,     \* what the last VM::step returned
    run_result,      \* "active" while VM::run loops, then what it returned
    steps,           \* number of steps taken (bounded by MaxSteps)
    prev,            \* history: machine state on entry to the last step
    wlog,            \* history: <<address, value>> of every successful wmem
    interrupted_at,  \* history: `steps` when the flag was cleared, -1 before
    phase,           \* which tool runs: "run", "decompile", "parse", "compile",
                     \* then "done", "failed" (Err returned) or "panicked"
    text,            \* the assembly text: what decompile wrote, what parse reads
    dis_pointer,     \* decompile: pointer
    visited,         \* history: the addresses decompile wrote a line for
    line_number,     \* parse: line_number
    parse_pointer,   \* parse: pointer
    line_addresses,  \* history: parse's pointer at the head of each line read
    instructions,    \* Parsing.instructions: address -> ParsedInstruction
    labels,          \* Parsing.labels: name -> address
    compile_pointer, \* compile: pointer
    binary,          \* bytes compile wrote to its output
    tool_error,      \* the error a tool returned, the line it names
    headers,         \* HeaderCollection.0: name -> value
    header_history,  \* history: the calls of add and clear and their results
    header_prev      \* history: the collection on entry to the last call

tool_vars == <<phase, text, dis_pointer, visited, line_number, parse_pointer,
               line_addresses,
               instructions, labels, compile_pointer, binary, tool_error>>

header_vars == <<headers, header_history, header_prev>>

vars == <<memory, memory_changes, registers, stack, pointer, input, output,
          running, overflow_checks, step_result, run_result, steps, prev, wlog,
          interrupted_at, tool_vars, header_vars>>

----------------------------------------------------------------------------
(* Bounds *)

MaxSteps == 4

MaxInput == 3

MaxHeaderOps == 4

----------------------------------------------------------------------------
(* Machine words *)

U16 == 65536

AsU16(x) == x % U16

RECURSIVE BitAnd(_, _, _)
BitAnd(a, b, n) ==
    IF n = 0 THEN 0
    ELSE (IF a % 2 = 1 /\ b % 2 = 1 THEN 1 ELSE 0)
         + 2 * BitAnd(a \div 2, b \div 2, n - 1)

RECURSIVE BitOr(_, _, _)
BitOr(a, b, n) ==
    IF n = 0 THEN 0
    ELSE (IF a % 2 = 1 \/ b % 2 = 1 THEN 1 ELSE 0)
         + 2 * BitOr(a \div 2, b \div 2, n - 1)

RECURSIVE BitXor(_, _, _)
BitXor(a, b, n) ==
    IF n = 0 THEN 0
    ELSE (IF a % 2 # b % 2 THEN 1 ELSE 0)
         + 2 * BitXor(a \div 2, b \div 2, n - 1)

\* ((a as u64) * (b as u64)) % 32768 for a, b < 2^16.  The u64 product never
\* wraps; b is split as 32768 * hi + lo and the hi part, a multiple of 32768,
\* is dropped so that the evaluation stays below 2^31.
MulMod(a, b) == (a * (b % 32768)) % 32768

----------------------------------------------------------------------------
(* Data (src/runtime/data.rs) *)

DataOf(mc, regs, stk) == [memory_changes |-> mc, registers |-> regs, stack |-> stk]

Ok(v) == [ok |-> TRUE, val |-> v, err |-> ""]

Err(e) == [ok |-> FALSE, val |-> 0, err |-> e]

length_memory == Cardinality(DOMAIN memory)

\* Mutant of read_memory: the image is consulted before the overlay.
read_memory_base_first(d, address) ==
    IF address \in DOMAIN memory THEN Ok(memory[address])
    ELSE IF address \in DOMAIN d.memory_changes THEN Ok(d.memory_changes[address])
    ELSE Err("ReadOutOfRange")

read_memory(d, address) ==
    IF address \in DOMAIN d.memory_changes THEN Ok(d.memory_changes[address])
    ELSE IF address \in DOMAIN memory THEN Ok(memory[address])
    ELSE Err("ReadOutOfRange")

\* Mutant of write_memory: the address is not checked against the image.
write_memory_unchecked(d, address, value) ==
    [ok |-> TRUE, err |-> "",
     data |-> [d EXCEPT !.memory_changes =
                  [a \in DOMAIN d.memory_changes \cup {address} |->
                      IF a = address THEN value ELSE d.memory_changes[a]]]]

write_memory(d, address, value) ==
    IF address < length_memory
    THEN [ok |-> TRUE, err |-> "",
          data |-> [d EXCEPT !.memory_changes =
                       [a \in DOMAIN d.memory_changes \cup {address} |->
                           IF a = address THEN value ELSE d.memory_changes[a]]]]
    ELSE [ok |-> FALSE, err |-> "WriteOutOfRange", data |-> d]

get_number(d, i) ==
    LET m == read_memory(d, AsU16(i)) IN
    IF ~m.ok THEN m
    ELSE IF m.val > 32775 THEN Err("TooLarge")
    ELSE IF m.val > 32767 THEN Ok(d.registers[m.val - 32768])
    ELSE Ok(m.val)

\* Mutant of set_number: any word selects a register, by its low bits.
set_number_any(d, r, value) ==
    LET m == read_memory(d, AsU16(r)) IN
    IF ~m.ok THEN [ok |-> FALSE, err |-> m.err, data |-> d]
    ELSE [ok |-> TRUE, err |-> "", data |-> [d EXCEPT !.registers[m.val % 8] = value]]

set_number(d, r, value) ==
    LET m == read_memory(d, AsU16(r)) IN
    IF ~m.ok THEN [ok |-> FALSE, err |-> m.err, data |-> d]
    ELSE IF 32767 < m.val /\ m.val < 32776
    THEN [ok |-> TRUE, err |-> "",
          data |-> [d EXCEPT !.registers[m.val - 32768] = value]]
    ELSE [ok |-> FALSE, err |-> "NotARegister", data |-> d]

push_stack(d, value) == [d EXCEPT !.stack = Append(@, value)]

pop_stack(d) ==
    IF d.stack = <<>>
    THEN [ok |-> FALSE, val |-> 0, err |-> "StackEmpty", data |-> d]
    ELSE [ok |-> TRUE, val |-> d.stack[Len(d.stack)], err |-> "",
          data |-> [d EXCEPT !.stack = SubSeq(@, 1, Len(@) - 1)]]

----------------------------------------------------------------------------
(* Opcode handlers (src/runtime/vm.rs).  A handler returns the Action of   *)
(* the source (Move, Jump, Halt), or Err for a returned error, or Panic    *)
(* where the Rust code aborts; `data`, `input` and `output` are what the   *)
(* call leaves behind, also when it fails part-way.                        *)

Move(m, d, inp, outp) ==
    [action |-> "Move", arg |-> m, err |-> "", data |-> d, input |-> inp, output |-> outp]

Jump(j, d, inp, outp) ==
    [action |-> "Jump", arg |-> j, err |-> "", data |-> d, input |-> inp, output |-> outp]

Halt(d, inp, outp) ==
    [action |-> "Halt", arg |-> 0, err |-> "", data |-> d, input |-> inp, output |-> outp]

Fail(e, d, inp, outp) ==
    [action |-> "Err", arg |-> 0, err |-> e, data |-> d, input |-> inp, output |-> outp]

Panic(e, d, inp, outp) ==
    [action |-> "Panic", arg |-> 0, err |-> e, data |-> d, input |-> inp, output |-> outp]

halt(d, i, inp, outp) == Halt(d, inp, outp)

set(d, i, inp, outp) ==
    LET b == get_number(d, i + 2) IN
    IF ~b.ok THEN Fail(b.err, d, inp, outp) ELSE
    LET s == set_number(d, i + 1, b.val) IN
    IF ~s.ok THEN Fail(s.err, s.data, inp, outp)
    ELSE Move(3, s.data, inp, outp)

push(d, i, inp, outp) ==
    LET a == get_number(d, i + 1) IN
    IF ~a.ok THEN Fail(a.err, d, inp, outp)
    ELSE Move(2, push_stack(d, a.val), inp, outp)

\* Mutant of pop: an empty stack yields 0 instead of an error.
pop_lenient(d, i, inp, outp) ==
    LET p == pop_stack(d)
        s == set_number(p.data, i + 1, p.val)
    IN  IF ~s.ok THEN Fail(s.err, s.data, inp, outp)
        ELSE Move(2, s.data, inp, outp)

pop(d, i, inp, outp) ==
    LET p == pop_stack(d) IN
    IF ~p.ok THEN Fail(p.err, p.data, inp, outp) ELSE
    LET s == set_number(p.data, i + 1, p.val) IN
    IF ~s.ok THEN Fail(s.err, s.data, inp, outp)
    ELSE Move(2, s.data, inp, outp)

eq(d, i, inp, outp) ==
    LET b == get_number(d, i + 2) IN
    IF ~b.ok THEN Fail(b.err, d, inp, outp) ELSE
    LET c == get_number(d, i + 3) IN
    IF ~c.ok THEN Fail(c.err, d, inp, outp) ELSE
    LET s == set_number(d, i + 1, IF b.val = c.val THEN 1 ELSE 0) IN
    IF ~s.ok THEN Fail(s.err, s.data, inp, outp)
    ELSE Move(4, s.data, inp, outp)

gt(d, i, inp, outp) ==
    LET b == get_number(d, i + 2) IN
    IF ~b.ok THEN Fail(b.err, d, inp, outp) ELSE
    LET c == get_number(d, i + 3) IN
    IF ~c.ok THEN Fail(c.err, d, inp, outp) ELSE
    LET s == set_number(d, i + 1, IF b.val > c.val THEN 1 ELSE 0) IN
    IF ~s.ok THEN Fail(s.err, s.data, inp, outp)
    ELSE Move(4, s.data, inp, outp)

jmp(d, i, inp, outp) ==
    LET a == get_number(d, i + 1) IN
    IF ~a.ok THEN Fail(a.err, d, inp, outp)
    ELSE Jump(a.val, d, inp, outp)

jt(d, i, inp, outp) ==
    LET a == get_number(d, i + 1) IN
    IF ~a.ok THEN Fail(a.err, d, inp, outp)
    ELSE IF a.val # 0
    THEN LET b == get_number(d, i + 2) IN
         IF ~b.ok THEN Fail(b.err, d, inp, outp)
         ELSE Jump(b.val, d, inp, outp)
    ELSE Move(3, d, inp, outp)

jf(d, i, inp, outp) ==
    LET a == get_number(d, i + 1) IN
    IF ~a.ok THEN Fail(a.err, d, inp, outp)
    ELSE IF a.val = 0
    THEN LET b == get_number(d, i + 2) IN
         IF ~b.ok THEN Fail(b.err, d, inp, outp)
         ELSE Jump(b.val, d, inp, outp)
    ELSE Move(3, d, inp, outp)

\* Mutant of add: the second summand is left out.
add_first_operand(d, i, inp, outp) ==
    LET b == get_number(d, i + 2) IN
    IF ~b.ok THEN Fail(b.err, d, inp, outp) ELSE
    LET c == get_number(d, i + 3) IN
    IF ~c.ok THEN Fail(c.err, d, inp, outp) ELSE
    LET s == set_number(d, i + 1, b.val % 32768) IN
    IF ~s.ok THEN Fail(s.err, s.data, inp, outp)
    ELSE Move(4, s.data, inp, outp)

\* The sum is a u16 addition: above 65535 it panics in a build with overflow
\* checks and wraps modulo 2^16 in a build without.
add(d, i, inp, outp) ==
    LET b == get_number(d, i + 2) IN
    IF ~b.ok THEN Fail(b.err, d, inp, outp) ELSE
    LET c == get_number(d, i + 3) IN
    IF ~c.ok THEN Fail(c.err, d, inp, outp) ELSE
    IF b.val + c.val >= U16 /\ overflow_checks
    THEN Panic("Overflow", d, inp, outp) ELSE
    LET s == set_number(d, i + 1, AsU16(b.val + c.val) % 32768) IN
    IF ~s.ok THEN Fail(s.err, s.data, inp, outp)
    ELSE Move(4, s.data, inp, outp)

\* Mutant of mul: the product is formed in u16, without the widening casts.
mul_narrow(d, i, inp, outp) ==
    LET b == get_number(d, i + 2) IN
    IF ~b.ok THEN Fail(b.err, d, inp, outp) ELSE
    LET c == get_number(d, i + 3) IN
    IF ~c.ok THEN Fail(c.err, d, inp, outp) ELSE
    IF (b.val % 32768) * (c.val % 32768) >= U16 /\ overflow_checks
    THEN Panic("Overflow", d, inp, outp) ELSE
    LET s == set_number(d, i + 1, MulMod(b.val, c.val)) IN
    IF ~s.ok THEN Fail(s.err, s.data, inp, outp)
    ELSE Move(4, s.data, inp, outp)

mul(d, i, inp, outp) ==
    LET b == get_number(d, i + 2) IN
    IF ~b.ok THEN Fail(b.err, d, inp, outp) ELSE
    LET c == get_number(d, i + 3) IN
    IF ~c.ok THEN Fail(c.err, d, inp, outp) ELSE
    LET s == set_number(d, i + 1, MulMod(b.val, c.val)) IN
    IF ~s.ok THEN Fail(s.err, s.data, inp, outp)
    ELSE Move(4, s.data, inp, outp)

\* The remainder operator of Rust panics on a zero divisor in every build.
mod_op(d, i, inp, outp) ==
    LET b == get_number(d, i + 2) IN
    IF ~b.ok THEN Fail(b.err, d, inp, outp) ELSE
    LET c == get_number(d, i + 3) IN
    IF ~c.ok THEN Fail(c.err, d, inp, outp) ELSE
    IF c.val = 0 THEN Panic("RemainderByZero", d, inp, outp) ELSE
    LET s == set_number(d, i + 1, b.val % c.val) IN
    IF ~s.ok THEN Fail(s.err, s.data, inp, outp)
    ELSE Move(4, s.data, inp, outp)

and(d, i, inp, outp) ==
    LET b == get_number(d, i + 2) IN
    IF ~b.ok THEN Fail(b.err, d, inp, outp) ELSE
    LET c == get_number(d, i + 3) IN
    IF ~c.ok THEN Fail(c.err, d, inp, outp) ELSE
    LET s == set_number(d, i + 1, BitAnd(b.val, c.val, 16)) IN
    IF ~s.ok THEN Fail(s.err, s.data, inp, outp)
    ELSE Move(4, s.data, inp, outp)

or(d, i, inp, outp) ==
    LET b == get_number(d, i + 2) IN
    IF ~b.ok THEN Fail(b.err, d, inp, outp) ELSE
    LET c == get_number(d, i + 3) IN
    IF ~c.ok THEN Fail(c.err, d, inp, outp) ELSE
    LET s == set_number(d, i + 1, BitOr(b.val, c.val, 16)) IN
    IF ~s.ok THEN Fail(s.err, s.data, inp, outp)
    ELSE Move(4, s.data, inp, outp)

not(d, i, inp, outp) ==
    LET b == get_number(d, i + 2) IN
    IF ~b.ok THEN Fail(b.err, d, inp, outp) ELSE
    LET s == set_number(d, i + 1, BitXor(32767, b.val, 16)) IN
    IF ~s.ok THEN Fail(s.err, s.data, inp, outp)
    ELSE Move(3, s.data, inp, outp)

rmem(d, i, inp, outp) ==
    LET address == get_number(d, i + 2) IN
    IF ~address.ok THEN Fail(address.err, d, inp, outp) ELSE
    LET value == read_memory(d, address.val) IN
    IF ~value.ok THEN Fail(value.err, d, inp, outp) ELSE
    LET s == set_number(d, i + 1, value.val) IN
    IF ~s.ok THEN Fail(s.err, s.data, inp, outp)
    ELSE Move(3, s.data, inp, outp)

wmem(d, i, inp, outp) ==
    LET address == get_number(d, i + 1) IN
    IF ~address.ok THEN Fail(address.err, d, inp, outp) ELSE
    LET value == get_number(d, i + 2) IN
    IF ~value.ok THEN Fail(value.err, d, inp, outp) ELSE
    LET w == write_memory(d, address.val, value.val) IN
    IF ~w.ok THEN Fail(w.err, w.data, inp, outp)
    ELSE Move(3, w.data, inp, outp)

\* Mutant of call: the return address is that of the operand, not of the
\* next instruction.
call_off_by_one(d, i, inp, outp) ==
    LET next_addr == AsU16(i + 1)
        pushed == push_stack(d, next_addr)
        a == get_number(pushed, i + 1)
    IN  IF ~a.ok THEN Fail(a.err, pushed, inp, outp)
        ELSE Jump(a.val, pushed, inp, outp)

call(d, i, inp, outp) ==
    LET next_addr == AsU16(i + 2)
        pushed == push_stack(d, next_addr)
        a == get_number(pushed, i + 1)
    IN  IF ~a.ok THEN Fail(a.err, pushed, inp, outp)
        ELSE Jump(a.val, pushed, inp, outp)

\* Mutant of ret: the error of pop_stack is propagated.
ret_strict(d, i, inp, outp) ==
    LET p == pop_stack(d) IN
    IF p.ok THEN Jump(p.val, p.data, inp, outp)
    ELSE Fail(p.err, p.data, inp, outp)

ret(d, i, inp, outp) ==
    LET p == pop_stack(d) IN
    IF p.ok THEN Jump(p.val, p.data, inp, outp)
    ELSE Halt(p.data, inp, outp)

\* String::from_utf16 of one code unit fails exactly on a lone surrogate.
\* The stream accepts every write.
\* Mutant of out: the character is put in front of the output.
out_prepend(d, i, inp, outp) ==
    LET ascii == get_number(d, i + 1) IN
    IF ~ascii.ok THEN Fail(ascii.err, d, inp, outp)
    ELSE IF 55296 <= ascii.val /\ ascii.val <= 57343
    THEN Fail("CouldNotEncode", d, inp, outp)
    ELSE Move(2, d, inp, <<ascii.val>> \o outp)

out(d, i, inp, outp) ==
    LET ascii == get_number(d, i + 1) IN
    IF ~ascii.ok THEN Fail(ascii.err, d, inp, outp)
    ELSE IF 55296 <= ascii.val /\ ascii.val <= 57343
    THEN Fail("CouldNotEncode", d, inp, outp)
    ELSE Move(2, d, inp, Append(outp, ascii.val))

\* Mutant of in_op: a CR is stored like any other byte.
in_op_keep_cr(d, i, inp, outp) ==
    IF inp = <<>> THEN Halt(d, inp, outp)
    ELSE LET s == set_number(d, i + 1, Head(inp)) IN
         IF ~s.ok THEN Fail(s.err, s.data, Tail(inp), outp)
         ELSE Move(2, s.data, Tail(inp), outp)

\* Mutant of in_op: the end of input is reported as a read error.
RECURSIVE in_op_eof_error(_, _, _, _)
in_op_eof_error(d, i, inp, outp) ==
    IF inp = <<>> THEN Fail("CouldNotRead", d, inp, outp)
    ELSE IF Head(inp) = 13 THEN in_op_eof_error(d, i, Tail(inp), outp)
    ELSE LET s == set_number(d, i + 1, Head(inp)) IN
         IF ~s.ok THEN Fail(s.err, s.data, Tail(inp), outp)
         ELSE Move(2, s.data, Tail(inp), outp)

\* input.read of one byte: Ok(1) takes the head of the stream, Ok(0) is the
\* end of the stream.  The stream itself never fails.
RECURSIVE in_op(_, _, _, _)
in_op(d, i, inp, outp) ==
    IF inp = <<>> THEN Halt(d, inp, outp)
    ELSE IF Head(inp) = 13 THEN in_op(d, i, Tail(inp), outp)
    ELSE LET s == set_number(d, i + 1, Head(inp)) IN
         IF ~s.ok THEN Fail(s.err, s.data, Tail(inp), outp)
         ELSE Move(2, s.data, Tail(inp), outp)

noop(d, i, inp, outp) == Move(1, d, inp, outp)

unknown(d, i, inp, outp) ==
    LET a == get_number(d, i) IN
    IF ~a.ok THEN Fail(a.err, d, inp, outp)
    ELSE Fail("UnknownOpcode", d, inp, outp)

get_handler(opcode, d, i, inp, outp) ==
    CASE opcode = 0 -> halt(d, i, inp, outp)
      [] opcode = 1 -> set(d, i, inp, outp)
      [] opcode = 2 -> push(d, i, inp, outp)
      [] opcode = 3 -> pop(d, i, inp, outp)
      [] opcode = 4 -> eq(d, i, inp, outp)
      [] opcode = 5 -> gt(d, i, inp, outp)
      [] opcode = 6 -> jmp(d, i, inp, outp)
      [] opcode = 7 -> jt(d, i, inp, outp)
      [] opcode = 8 -> jf(d, i, inp, outp)
      [] opcode = 9 -> add(d, i, inp, outp)
      [] opcode = 10 -> mul(d, i, inp, outp)
      [] opcode = 11 -> mod_op(d, i, inp, outp)
      [] opcode = 12 -> and(d, i, inp, outp)
      [] opcode = 13 -> or(d, i, inp, outp)
      [] opcode = 14 -> not(d, i, inp, outp)
      [] opcode = 15 -> rmem(d, i, inp, outp)
      [] opcode = 16 -> wmem(d, i, inp, outp)
      [] opcode = 17 -> call(d, i, inp, outp)
      [] opcode = 18 -> ret(d, i, inp, outp)
      [] opcode = 19 -> out(d, i, inp, outp)
      [] opcode = 20 -> in_op(d, i, inp, outp)
      [] opcode = 21 -> noop(d, i, inp, outp)
      [] OTHER -> unknown(d, i, inp, outp)

\* VM::step on the machine (d, p): the value it returns (ret), the error it
\* carries and the pc the message names, and the machine it leaves behind.
StepOut(r, e, at, d, p, inp, outp) ==
    [ret |-> r, err |-> e, at |-> at, data |-> d, pointer |-> p,
     input |-> inp, output |-> outp]

\* Mutant of step_action: a halt goes on to the next word.
step_action_halt_moves(h, p) ==
    CASE h.action = "Move" ->
           StepOut("Ok(true)", "", p, h.data, p + h.arg, h.input, h.output)
      [] h.action = "Jump" ->
           StepOut("Ok(true)", "", p, h.data, h.arg, h.input, h.output)
      [] h.action = "Halt" ->
           StepOut("Ok(false)", "", p, h.data, p + 1, h.input, h.output)
      [] h.action = "Err" ->
           StepOut("Err", h.err, p, h.data, p, h.input, h.output)
      [] h.action = "Panic" ->
           StepOut("Panic", h.err, p, h.data, p, h.input, h.output)

\* The match of VM::step on what the handler returned.
step_action(h, p) ==
    CASE h.action = "Move" ->
           StepOut("Ok(true)", "", p, h.data, p + h.arg, h.input, h.output)
      [] h.action = "Jump" ->
           StepOut("Ok(true)", "", p, h.data, h.arg, h.input, h.output)
      [] h.action = "Halt" ->
           StepOut("Ok(false)", "", p, h.data, p, h.input, h.output)
      [] h.action = "Err" ->
           StepOut("Err", h.err, p, h.data, p, h.input, h.output)
      [] h.action = "Panic" ->
           StepOut("Panic", h.err, p, h.data, p, h.input, h.output)

\* get_handler(self.data.get_number(self.pointer).unwrap()) and the call of
\* the handler: unwrap aborts when get_number failed.
step_dispatch(opcode, d, p, inp, outp) ==
    IF ~opcode.ok
    THEN StepOut("Panic", opcode.err, p, d, p, inp, outp)
    ELSE step_action(get_handler(opcode.val, d, p, inp, outp), p)

\* Mutant of step: the pc equal to the image length passes the range test.
step_off_by_one(d, p, inp, outp) ==
    IF p > length_memory
    THEN StepOut("Err", "OutOfRange", p, d, p, inp, outp)
    ELSE step_dispatch(get_number(d, p), d, p, inp, outp)

\* Mutant of step: the opcode is fetched from the image, the overlay left
\* aside.
step_from_image(d, p, inp, outp) ==
    IF p >= length_memory
    THEN StepOut("Err", "OutOfRange", p, d, p, inp, outp)
    ELSE step_dispatch(get_number([d EXCEPT !.memory_changes = [a \in {} |-> 0]], p),
                       d, p, inp, outp)

step(d, p, inp, outp) ==
    IF p >= length_memory
    THEN StepOut("Err", "OutOfRange", p, d, p, inp, outp)
    ELSE step_dispatch(get_number(d, p), d, p, inp, outp)

----------------------------------------------------------------------------
(* Images and inputs the machine is started on *)

\* The image as Data.memory holds it: a slice indexed from 0.
Img(words) == [a \in 0..(Len(words) - 1) |-> words[a + 1]]

\* Instructions the images are built from: every opcode, with literal,
\* register, non-register and too-large operands, and words that are no
\* opcode.
Pool ==
    { <<0>>,
      <<1, 32768, 5>>, <<1, 32769, 32768>>, <<1, 5, 5>>, <<1, 32768, 32776>>,
      <<2, 7>>, <<2, 32768>>,
      <<3, 32768>>, <<3, 3>>,
      <<4, 32769, 32768, 5>>,
      <<5, 32769, 32768, 4>>,
      <<6, 0>>, <<6, 32768>>,
      <<7, 32768, 6>>,
      <<8, 32768, 5>>,
      <<9, 32768, 32768, 32768>>, <<9, 32768, 32767, 32767>>, <<9, 32769, 32768, 1>>,
      <<10, 32768, 30000, 30000>>, <<10, 32768, 32768, 32768>>,
      <<10, 32769, 32767, 32767>>,
      <<11, 32768, 7, 3>>, <<11, 32769, 7, 32768>>,
      <<12, 32768, 32768, 12>>,
      <<13, 32768, 32768, 3>>,
      <<14, 32768, 32768>>,
      <<15, 32768, 1>>, <<15, 32769, 10>>, <<15, 32769, 0>>, <<15, 32768, 32767>>,
      <<16, 4, 3>>, <<16, 10, 20>>, <<16, 1, 32768>>, <<16, 0, 21>>, <<16, 32767, 1>>,
      <<17, 4>>, <<17, 32776>>,
      <<18>>,
      <<19, 65>>, <<19, 32768>>,
      <<20, 32768>>, <<20, 5>>,
      <<21>>,
      <<22>>, <<32768>>, <<32776>>, <<40000>> }

\* First instructions of the three-instruction images: they leave a register,
\* the stack or the overlay non-trivial for the two that follow.
SetupPool ==
    { <<15, 32768, 1>>, <<1, 32768, 32767>>, <<2, 5>>, <<16, 10, 3>>,
      <<20, 32769>>, <<17, 2>> }

\* Words that follow the instructions of every built image.
TailWords == <<0, 18, 55296>>

\* The images of the concrete scenarios and of the tests of data.rs.
ScenarioImages ==
    { <<9, 32768, 32769, 4, 19, 32768, 0>>,
      <<7, 1, 5, 0, 0, 21>>,
      <<7, 1, 5, 0, 0, 0>>,
      <<17, 4, 0, 0, 18>>,
      <<9, 32768, 32767, 32767, 0>>,
      <<10, 32768, 30000, 30000, 0>>,
      <<21, 19, 77, 0, 32768>>,
      <<>> }

\* Images at the edges of the operand model: a too-large word behind a branch
\* that is not taken and behind one that is, in a comparison and in a write,
\* an opcode held in a register, two different characters written, and a
\* noop overwritten by a halt.
BoundaryImages ==
    { <<7, 0, 32776, 0>>,
      <<8, 1, 32776, 0>>,
      <<7, 1, 32776, 0>>,
      <<4, 32768, 32776, 1, 0>>,
      <<16, 2, 32776, 0>>,
      <<1, 32768, 19, 32768, 65, 0>>,
      <<19, 65, 19, 66, 0>>,
      <<16, 3, 0, 21, 0>> }

Images ==
    ScenarioImages
    \cup BoundaryImages
    \cup { a \o TailWords : a \in Pool }
    \cup { a \o b \o TailWords : a \in Pool, b \in Pool }
    \cup { s \o a \o b \o TailWords : s \in SetupPool, a \in Pool, b \in Pool }

\* The general images run on a CR LF line; the end of input is then met by
\* the second read.
Inputs == { <<13, 10>> }

\* Images and inputs for the input instruction: every byte sequence of at
\* most MaxInput bytes over CR, LF and a letter.
Bytes == {10, 13, 65}

ByteSeqs == UNION { [1..n -> Bytes] : n \in 0..MaxInput }

InPool ==
    { <<20, 32768>>, <<20, 32769>>, <<20, 5>>, <<20, 32776>>,
      <<19, 32768>>, <<1, 32768, 13>>, <<6, 0>>, <<21>>, <<0>> }

InImages == { a \o b \o TailWords : a \in InPool, b \in InPool }

----------------------------------------------------------------------------
(* The machine *)

Snapshot ==
    [memory_changes |-> memory_changes, registers |-> registers, stack |-> stack,
     pointer |-> pointer, input |-> input, output |-> output]

NoResult == [ret |-> "None", err |-> "", at |-> 0]

NoError == [kind |-> "", line |-> 0]

\* HeaderCollection::new.
HeaderNew ==
    /\ headers = [n \in {} |-> <<>>]
    /\ header_history = <<>>
    /\ header_prev = [n \in {} |-> <<>>]

\* The locals of decompile, parse and compile as they are initialised, for
\* the tool that runs first and the text it reads.
ToolStart(first, source) ==
    /\ phase = first
    /\ text = source
    /\ dis_pointer = 0
    /\ visited = <<>>
    /\ line_number = 1
    /\ parse_pointer = 0
    /\ line_addresses = <<>>
    /\ instructions = [a \in {} |-> 0]
    /\ labels = [n \in {} |-> 0]
    /\ compile_pointer = 0
    /\ binary = <<>>
    /\ tool_error = NoError

\* Data::new, VM::new and the first lines of VM::run.
MachineInit(images, inputs) ==
    /\ \E image \in images : memory = Img(image)
    /\ memory_changes = [a \in {} |-> 0]
    /\ registers = [r \in 0..7 |-> 0]
    /\ stack = <<>>
    /\ pointer = 0
    /\ input \in inputs
    /\ output = <<>>
    /\ running = TRUE
    /\ overflow_checks \in BOOLEAN
    /\ step_result = NoResult
    /\ run_result = "active"
    /\ steps = 0
    /\ prev = [memory_changes |-> [a \in {} |-> 0], registers |-> [r \in 0..7 |-> 0],
               stack |-> <<>>, pointer |-> 0, input |-> input, output |-> <<>>]
    /\ wlog = <<>>
    /\ interrupted_at = -1

\* The machine alone: no tool of the compiler runs.
InitOn(images, inputs) ==
    MachineInit(images, inputs) /\ ToolStart("run", <<>>) /\ HeaderNew

Init == InitOn(Images, Inputs)

\* Register files a snapshot restores: at most one register is not zero.
LoadedRegisters ==
    { [r \in 0..7 |-> IF r = k THEN v ELSE 0] : k \in 0..7, v \in {0, 5, 32767} }

LoadedImages == ScenarioImages \cup { a \o TailWords : a \in Pool }

\* VM::load: the machine on an image with the registers of a snapshot, the
\* rest as VM::new leaves it.
InitLoaded ==
    /\ \E image \in LoadedImages : memory = Img(image)
    /\ memory_changes = [a \in {} |-> 0]
    /\ registers \in LoadedRegisters
    /\ stack = <<>>
    /\ pointer = 0
    /\ input \in Inputs
    /\ output = <<>>
    /\ running = TRUE
    /\ overflow_checks \in BOOLEAN
    /\ step_result = NoResult
    /\ run_result = "active"
    /\ steps = 0
    /\ prev = [memory_changes |-> [a \in {} |-> 0], registers |-> registers,
               stack |-> <<>>, pointer |-> 0, input |-> input, output |-> <<>>]
    /\ wlog = <<>>
    /\ interrupted_at = -1
    /\ ToolStart("run", <<>>)
    /\ HeaderNew

InitIn == InitOn(InImages, ByteSeqs)

\* The entry the step adds to the history of writes: wmem that returned Move.
Written(d, p) ==
    LET opcode == get_number(d, p) IN
    IF p < length_memory /\ opcode.ok /\ opcode.val = 16
    THEN <<<<get_number(d, p + 1).val, get_number(d, p + 2).val>>>>
    ELSE <<>>

\* The test `self.step(input, output)? && running.load()` of VM::run on the
\* value o.ret the step returned.
\* Mutant of run_after: the flag is not tested.
run_after_ignoring_flag(returned) ==
    CASE returned = "Err" -> "Err"
      [] returned = "Panic" -> "Panic"
      [] returned = "Ok(false)" -> "Ok"
      [] returned = "Ok(true)" -> "active"

run_after(returned) ==
    CASE returned = "Err" -> "Err"
      [] returned = "Panic" -> "Panic"
      [] returned = "Ok(false)" -> "Ok"
      [] returned = "Ok(true)" -> IF running THEN "active" ELSE "Ok"

\* The machine after a step that came out as o, on the machine d.
StepTo(o, d) ==
    /\ memory_changes' = o.data.memory_changes
    /\ registers' = o.data.registers
    /\ stack' = o.data.stack
    /\ pointer' = o.pointer
    /\ input' = o.input
    /\ output' = o.output
    /\ step_result' = [ret |-> o.ret, err |-> o.err, at |-> o.at]
    /\ run_result' = run_after(o.ret)
    /\ wlog' = IF o.ret = "Ok(true)" THEN wlog \o Written(d, pointer) ELSE wlog

\* One iteration of the loop of VM::run: a step, then the test of its result
\* and of the flag.
Step ==
    /\ phase = "run"
    /\ run_result = "active"
    /\ steps < MaxSteps
    /\ StepTo(step(DataOf(memory_changes, registers, stack), pointer, input, output),
              DataOf(memory_changes, registers, stack))
    /\ prev' = Snapshot
    /\ steps' = steps + 1
    /\ UNCHANGED <<memory, running, overflow_checks, interrupted_at, tool_vars,
                   header_vars>>

\* The Ctrl-C handler installed by VM::run.
Interrupt ==
    /\ phase = "run"
    /\ run_result = "active"
    /\ running
    /\ running' = FALSE
    /\ interrupted_at' = steps
    /\ UNCHANGED <<memory, memory_changes, registers, stack, pointer, input, output,
                   overflow_checks, step_result, run_result, steps, prev, wlog,
                   tool_vars, header_vars>>

Next == Step \/ Interrupt

Spec == Init /\ [][Next]_vars

SpecIn == InitIn /\ [][Next]_vars

SpecLoaded == InitLoaded /\ [][Next]_vars

\* VM::step called by a caller that goes on whatever the step returned: the
\* function is public and does not look at what an earlier call returned.
\* A call that aborted the process is the last one.
StepAlone ==
    /\ phase = "step"
    /\ step_result.ret # "Panic"
    /\ steps < MaxSteps
    /\ StepTo(step(DataOf(memory_changes, registers, stack), pointer, input, output),
              DataOf(memory_changes, registers, stack))
    /\ prev' = Snapshot
    /\ steps' = steps + 1
    /\ UNCHANGED <<memory, running, overflow_checks, interrupted_at, tool_vars,
                   header_vars>>

\* Images stepped this way: one instruction of every kind in front of a
\* halt and a ret, and the scenarios, on every short input.
StepImages == ScenarioImages \cup { a \o TailWords : a \in Pool }

InitStep ==
    /\ MachineInit(StepImages, ByteSeqs)
    /\ ToolStart("step", <<>>)
    /\ HeaderNew

SpecStep == InitStep /\ [][StepAlone]_vars

----------------------------------------------------------------------------
(* Text.  A glyph is a decimal digit, ":" or "#", or a run of letters; a   *)
(* part is what split_whitespace yields, a line the parts between two      *)
(* newlines.  The tab and the newline that writeln! puts between the       *)
(* fields are what separates the parts.                                    *)

DigitGlyphs == <<"0", "1", "2", "3", "4", "5", "6", "7", "8", "9">>

\* format!("{}", n) of an unsigned number.
RECURSIVE Digits(_)
Digits(n) ==
    IF n < 10 THEN <<DigitGlyphs[n + 1]>>
    ELSE Append(Digits(n \div 10), DigitGlyphs[(n % 10) + 1])

IsDigit(g) == \E v \in 0..9 : DigitGlyphs[v + 1] = g

DigitValue(g) == CHOOSE v \in 0..9 : DigitGlyphs[v + 1] = g

RECURSIVE Decimal(_)
Decimal(part) ==
    IF part = <<>> THEN 0
    ELSE Decimal(SubSeq(part, 1, Len(part) - 1)) * 10 + DigitValue(part[Len(part)])

\* str::parse::<u16>: decimal digits only, and a value that fits 16 bits.
\* (Parts of more than 9 digits do not occur in the texts modelled.)
parse_u16(part) ==
    IF /\ part # <<>> /\ Len(part) <= 9
       /\ \A k \in 1..Len(part) : IsDigit(part[k])
       /\ Decimal(part) < U16
    THEN Ok(Decimal(part))
    ELSE Err("ParseIntError")

starts_with(part, g) == part # <<>> /\ part[1] = g

ends_with(part, g) == part # <<>> /\ part[Len(part)] = g

\* u16::to_le_bytes and u16::from_le_bytes.
to_le_bytes(w) == <<w % 256, w \div 256>>

from_le_bytes(lo, hi) == lo + 256 * hi

\* load_binary: the words of a file of bytes, a last odd byte dropped.
load_binary(bytes) ==
    [k \in 1..(Len(bytes) \div 2) |-> from_le_bytes(bytes[2 * k - 1], bytes[2 * k])]

\* The words of the image `memory` as a sequence.
ImageWords == [k \in 1..length_memory |-> memory[k - 1]]

----------------------------------------------------------------------------
(* The disassembler (src/compiler/decompilation.rs) *)

\* get_handler of the disassembler and the handlers it selects: the mnemonic
\* the handler prints and the number of words it returns.  `unknown` prints
\* the word itself and no mnemonic.
decompile_handler(opcode) ==
    CASE opcode = 0 -> [mnemonic |-> <<"halt">>, size |-> 1]
      [] opcode = 1 -> [mnemonic |-> <<"set">>, size |-> 3]
      [] opcode = 2 -> [mnemonic |-> <<"push">>, size |-> 2]
      [] opcode = 3 -> [mnemonic |-> <<"pop">>, size |-> 2]
      [] opcode = 4 -> [mnemonic |-> <<"eq">>, size |-> 4]
      [] opcode = 5 -> [mnemonic |-> <<"gt">>, size |-> 4]
      [] opcode = 6 -> [mnemonic |-> <<"jmp">>, size |-> 2]
      [] opcode = 7 -> [mnemonic |-> <<"jt">>, size |-> 3]
      [] opcode = 8 -> [mnemonic |-> <<"jf">>, size |-> 3]
      [] opcode = 9 -> [mnemonic |-> <<"add">>, size |-> 4]
      [] opcode = 10 -> [mnemonic |-> <<"mul">>, size |-> 4]
      [] opcode = 11 -> [mnemonic |-> <<"mod">>, size |-> 4]
      [] opcode = 12 -> [mnemonic |-> <<"and">>, size |-> 4]
      [] opcode = 13 -> [mnemonic |-> <<"or">>, size |-> 4]
      [] opcode = 14 -> [mnemonic |-> <<"not">>, size |-> 3]
      [] opcode = 15 -> [mnemonic |-> <<"rmem">>, size |-> 3]
      [] opcode = 16 -> [mnemonic |-> <<"wmem">>, size |-> 3]
      [] opcode = 17 -> [mnemonic |-> <<"call">>, size |-> 2]
      [] opcode = 18 -> [mnemonic |-> <<"ret">>, size |-> 1]
      [] opcode = 19 -> [mnemonic |-> <<"out">>, size |-> 2]
      [] opcode = 20 -> [mnemonic |-> <<"in">>, size |-> 2]
      [] opcode = 21 -> [mnemonic |-> <<"noop">>, size |-> 1]
      [] OTHER -> [mnemonic |-> Digits(opcode), size |-> 1]

\* The line a handler writes at p: "<p>:", the mnemonic, the operand words.
decompile_line(h, p) ==
    <<Append(Digits(p), ":"), h.mnemonic>>
    \o [k \in 1..(h.size - 1) |-> Digits(memory[p + k])]

\* One call of a handler by decompile.  The handler indexes memory[p + k]
\* for each of its operands before it writes: an operand beyond the image
\* aborts with an index out of bounds.
decompile_to(h, p) ==
    IF p + h.size > length_memory
    THEN /\ phase' = "panicked"
         /\ tool_error' = [kind |-> "IndexOutOfBounds", line |-> 0]
         /\ UNCHANGED <<text, dis_pointer, visited>>
    ELSE /\ text' = Append(text, decompile_line(h, p))
         /\ dis_pointer' = p + h.size
         /\ visited' = Append(visited, p)
         /\ UNCHANGED <<phase, tool_error>>

machine_vars == <<memory, memory_changes, registers, stack, pointer, input, output,
                  running, overflow_checks, step_result, run_result, steps, prev,
                  wlog, interrupted_at>>

parse_vars == <<line_number, parse_pointer, instructions, labels>>

\* One iteration of the loop of decompile.
DecompileStep ==
    /\ phase = "decompile"
    /\ dis_pointer < length_memory
    /\ decompile_to(decompile_handler(memory[dis_pointer]), dis_pointer)
    /\ UNCHANGED <<machine_vars, header_vars, parse_vars, line_addresses, compile_pointer, binary>>

\* The loop of decompile ends and decompile returns Ok(()): the text it wrote
\* is handed to the assembler.
DecompileReturn ==
    /\ phase = "decompile"
    /\ dis_pointer >= length_memory
    /\ phase' = "parse"
    /\ UNCHANGED <<machine_vars, header_vars, text, dis_pointer, visited, parse_vars, line_addresses,
                   compile_pointer, binary, tool_error>>

----------------------------------------------------------------------------
(* The assembler, first sweep (src/compiler/compilation/parser.rs) *)

\* Token::Value(u16) and Token::Label(String).
Value(v) == [kind |-> "Value", value |-> v, name |-> <<>>]

Label(n) == [kind |-> "Label", value |-> 0, name |-> n]

\* The variant of Instruction a mnemonic constructs, "" for None.
get_constructor(op) ==
    CASE op = <<"halt">> -> "Halt"
      [] op = <<"set">> -> "Set"
      [] op = <<"push">> -> "Push"
      [] op = <<"pop">> -> "Pop"
      [] op = <<"eq">> -> "Eq"
      [] op = <<"gt">> -> "Gt"
      [] op = <<"jmp">> -> "Jmp"
      [] op = <<"jt">> -> "Jt"
      [] op = <<"jf">> -> "Jf"
      [] op = <<"add">> -> "Add"
      [] op = <<"mult">> -> "Mul"
      [] op = <<"mod">> -> "Mod"
      [] op = <<"and">> -> "And"
      [] op = <<"or">> -> "Or"
      [] op = <<"not">> -> "Not"
      [] op = <<"rmem">> -> "RMem"
      [] op = <<"wmem">> -> "WMem"
      [] op = <<"call">> -> "Call"
      [] op = <<"ret">> -> "Ret"
      [] op = <<"out">> -> "Out"
      [] op = <<"in">> -> "In"
      [] op = <<"noop">> -> "Noop"
      [] OTHER -> ""

\* The number of Some(_) the constructor of a variant matches in its
\* argument array, the rest being None.
constructor_arguments(variant) ==
    CASE variant \in {"Halt", "Ret", "Noop"} -> 0
      [] variant \in {"Push", "Pop", "Jmp", "Call", "Out", "In"} -> 1
      [] variant \in {"Set", "Jt", "Jf", "Not", "RMem", "WMem"} -> 2
      [] variant \in {"Eq", "Gt", "Add", "Mul", "Mod", "And", "Or"} -> 3

\* The call con(arguments): the array holds the arguments read, in order,
\* and None behind them.
construct(variant, arguments) ==
    IF Len(arguments) = constructor_arguments(variant)
    THEN [ok |-> TRUE, val |-> [variant |-> variant, args |-> arguments], err |-> ""]
    ELSE [ok |-> FALSE, val |-> [variant |-> variant, args |-> <<>>], err |-> "Arity"]

\* Mutant of get_size: every instruction takes the opcode word alone.
get_size_short(instruction) == 1

get_size(instruction) ==
    CASE instruction.variant = "Halt" -> 1
      [] instruction.variant = "Set" -> 3
      [] instruction.variant = "Push" -> 2
      [] instruction.variant = "Pop" -> 2
      [] instruction.variant = "Eq" -> 4
      [] instruction.variant = "Gt" -> 4
      [] instruction.variant = "Jmp" -> 2
      [] instruction.variant = "Jt" -> 3
      [] instruction.variant = "Jf" -> 3
      [] instruction.variant = "Add" -> 4
      [] instruction.variant = "Mul" -> 4
      [] instruction.variant = "Mod" -> 4
      [] instruction.variant = "And" -> 4
      [] instruction.variant = "Or" -> 4
      [] instruction.variant = "Not" -> 3
      [] instruction.variant = "RMem" -> 3
      [] instruction.variant = "WMem" -> 3
      [] instruction.variant = "Call" -> 2
      [] instruction.variant = "Ret" -> 1
      [] instruction.variant = "Out" -> 2
      [] instruction.variant = "In" -> 2
      [] instruction.variant = "Noop" -> 1

\* The locals of parse at the head of a line: label and constructor are
\* None (<<>> and ""), no argument is read.
LineStart == [label |-> <<>>, constructor |-> "", arguments |-> <<>>, err |-> ""]

\* The argument a part stands for.
argument_of(part) ==
    IF parse_u16(part).ok THEN Value(parse_u16(part).val) ELSE Label(part)

\* Mutant of label_part: the pointer label is not compared with the address.
label_part_unchecked(part, st, p) ==
    IF st.label # <<>> THEN [st EXCEPT !.err = "OnlyOneLabel"]
    ELSE IF parse_u16(SubSeq(part, 1, Len(part) - 1)).ok THEN st
    ELSE [st EXCEPT !.label = <<SubSeq(part, 1, Len(part) - 1)>>]

\* A part that ends with ':', read with the locals st at the address p.
label_part(part, st, p) ==
    IF st.label # <<>> THEN [st EXCEPT !.err = "OnlyOneLabel"]
    ELSE IF parse_u16(SubSeq(part, 1, Len(part) - 1)).ok
    THEN IF parse_u16(SubSeq(part, 1, Len(part) - 1)).val # p
         THEN [st EXCEPT !.err = "PointerLabel"]
         ELSE st
    ELSE [st EXCEPT !.label = <<SubSeq(part, 1, Len(part) - 1)>>]

\* The body of `for part in line.split_whitespace()` on one part.  The
\* fourth argument is stored beyond the array of three: the store aborts.
read_part(part, st, p) ==
    IF ends_with(part, ":") THEN label_part(part, st, p)
    ELSE IF st.constructor = ""
    THEN IF get_constructor(part) = ""
         THEN [st EXCEPT !.err = "UnknownOp"]
         ELSE [st EXCEPT !.constructor = get_constructor(part)]
    ELSE IF Len(st.arguments) >= 3
    THEN [st EXCEPT !.err = "ArgumentIndexOutOfBounds"]
    ELSE [st EXCEPT !.arguments = Append(@, argument_of(part))]

\* The loop over the parts of a line: it ends at the last part, at a part
\* that starts with '#', or where an error is returned.
RECURSIVE read_parts(_, _, _)
read_parts(parts, st, p) ==
    IF parts = <<>> \/ st.err # "" \/ starts_with(Head(parts), "#") THEN st
    ELSE read_parts(Tail(parts), read_part(Head(parts), st, p), p)

\* Mutant of labels_after: a name already in the table keeps its address.
labels_after_first(st, p) ==
    IF st.label = <<>> \/ st.label[1] \in DOMAIN labels THEN labels
    ELSE [n \in DOMAIN labels \cup {st.label[1]} |->
             IF n = st.label[1] THEN p ELSE labels[n]]

\* labels.insert(label_name, pointer) when the line has a label.
labels_after(st, p) ==
    IF st.label = <<>> THEN labels
    ELSE [n \in DOMAIN labels \cup {st.label[1]} |->
             IF n = st.label[1] THEN p ELSE labels[n]]

\* instructions.insert(pointer, ParsedInstruction { line_number, instruction }).
instructions_after(instruction, p) ==
    [a \in DOMAIN instructions \cup {p} |->
        IF a = p THEN [line_number |-> line_number, instruction |-> instruction]
        ELSE instructions[a]]

\* parse returns Err: the Parsing it was building is dropped.
parse_fails(kind) ==
    /\ phase' = "failed"
    /\ tool_error' = [kind |-> kind, line |-> line_number]
    /\ UNCHANGED parse_vars

\* What follows the loop over the parts of a line that were read as st: the
\* label is recorded, the instruction constructed and recorded, the address
\* advanced by its size.
line_read(st, c) ==
    IF st.err = "ArgumentIndexOutOfBounds"
    THEN /\ phase' = "panicked"
         /\ tool_error' = [kind |-> st.err, line |-> line_number]
         /\ UNCHANGED parse_vars
    ELSE IF st.err # "" THEN parse_fails(st.err)
    ELSE IF st.constructor # "" /\ ~c.ok THEN parse_fails(c.err)
    ELSE /\ labels' = labels_after(st, parse_pointer)
         /\ instructions' = IF st.constructor = "" THEN instructions
                            ELSE instructions_after(c.val, parse_pointer)
         /\ parse_pointer' = IF st.constructor = "" THEN parse_pointer
                             ELSE parse_pointer + get_size(c.val)
         /\ line_number' = line_number + 1
         /\ UNCHANGED <<phase, tool_error>>

\* `if let Some(con) = constructor { con(arguments)? ... }` on a line read
\* as st: nothing is constructed when the line has no mnemonic.
constructed(st) ==
    IF st.constructor = ""
    THEN [ok |-> TRUE, val |-> [variant |-> "", args |-> <<>>], err |-> ""]
    ELSE construct(st.constructor, st.arguments)

line_parsed(st) == line_read(st, constructed(st))

\* One iteration of the loop of parse: one line of the source.
ParseLine ==
    /\ phase = "parse"
    /\ line_number <= Len(text)
    /\ line_parsed(read_parts(text[line_number], LineStart, parse_pointer))
    /\ line_addresses' = Append(line_addresses, parse_pointer)
    /\ UNCHANGED <<machine_vars, header_vars, text, dis_pointer, visited, compile_pointer, binary>>

\* read_line returns 0: parse returns the Parsing, and main hands it to
\* compile.
ParseReturn ==
    /\ phase = "parse"
    /\ line_number > Len(text)
    /\ phase' = "compile"
    /\ UNCHANGED <<machine_vars, header_vars, text, dis_pointer, visited, parse_vars, line_addresses,
                   compile_pointer, binary, tool_error>>

----------------------------------------------------------------------------
(* The assembler, second sweep (src/compiler/compilation/compiler.rs) *)

\* The opcode the handler of a variant writes.
opcode_of(variant) ==
    CASE variant = "Halt" -> 0
      [] variant = "Set" -> 1
      [] variant = "Push" -> 2
      [] variant = "Pop" -> 3
      [] variant = "Eq" -> 4
      [] variant = "Gt" -> 5
      [] variant = "Jmp" -> 6
      [] variant = "Jt" -> 7
      [] variant = "Jf" -> 8
      [] variant = "Add" -> 9
      [] variant = "Mul" -> 10
      [] variant = "Mod" -> 11
      [] variant = "And" -> 12
      [] variant = "Or" -> 13
      [] variant = "Not" -> 14
      [] variant = "RMem" -> 15
      [] variant = "WMem" -> 16
      [] variant = "Call" -> 17
      [] variant = "Ret" -> 18
      [] variant = "Out" -> 19
      [] variant = "In" -> 20
      [] variant = "Noop" -> 21

\* The argument a handler looks up in the labels when it is a Token::Label:
\* the target of jmp, jt, jf, rmem, wmem and call; 0 for the handlers that
\* take literals only.
target_argument(variant) ==
    CASE variant \in {"Jmp", "WMem", "Call"} -> 1
      [] variant \in {"Jt", "Jf", "RMem"} -> 2
      [] OTHER -> 0

\* The word written for an argument: the literal, or the address of the
\* label.
word_of(token, lbls) ==
    IF token.kind = "Value" THEN token.value ELSE lbls[token.name]

RECURSIVE encode(_)
encode(words) ==
    IF words = <<>> THEN <<>> ELSE to_le_bytes(Head(words)) \o encode(Tail(words))

\* compile_instruction and the handler it calls: the bytes of the one
\* write_all, or the error returned before anything is written.  An argument
\* other than the target must be a Token::Value; this is tested before the
\* target is looked up.
compile_instruction(instruction, lbls) ==
    IF instruction.variant = "Data"
    THEN IF instruction.args[1].kind = "Value"
         THEN Ok(to_le_bytes(instruction.args[1].value))
         ELSE Err("MustBeLiteral")
    ELSE IF \E k \in 1..Len(instruction.args) :
               /\ k # target_argument(instruction.variant)
               /\ instruction.args[k].kind # "Value"
    THEN Err("MustBeLiteral")
    ELSE IF \E k \in 1..Len(instruction.args) :
               /\ instruction.args[k].kind = "Label"
               /\ instruction.args[k].name \notin DOMAIN lbls
    THEN Err("UndefinedLabel")
    ELSE Ok(<<opcode_of(instruction.variant), 0>>
            \o encode([k \in 1..Len(instruction.args) |->
                          word_of(instruction.args[k], lbls)]))

\* Mutant of compiled: a failure discards what was written.
compiled_discarding(pi, r) ==
    IF r.ok
    THEN /\ binary' = binary \o r.val
         /\ compile_pointer' = compile_pointer + get_size(pi.instruction)
         /\ UNCHANGED <<phase, tool_error>>
    ELSE /\ phase' = "failed"
         /\ tool_error' = [kind |-> r.err, line |-> pi.line_number]
         /\ binary' = <<>>
         /\ UNCHANGED compile_pointer

\* The body of the loop of compile on the instruction pi, compiled as r.
compiled(pi, r) ==
    IF r.ok
    THEN /\ binary' = binary \o r.val
         /\ compile_pointer' = compile_pointer + get_size(pi.instruction)
         /\ UNCHANGED <<phase, tool_error>>
    ELSE /\ phase' = "failed"
         /\ tool_error' = [kind |-> r.err, line |-> pi.line_number]
         /\ UNCHANGED <<binary, compile_pointer>>

\* One iteration of the loop of compile.
CompileStep ==
    /\ phase = "compile"
    /\ compile_pointer \in DOMAIN instructions
    /\ compiled(instructions[compile_pointer],
                compile_instruction(instructions[compile_pointer].instruction, labels))
    /\ UNCHANGED <<machine_vars, header_vars, text, dis_pointer, visited, parse_vars,
                   line_addresses>>

\* No instruction is recorded at the pointer: compile flushes and returns.
CompileReturn ==
    /\ phase = "compile"
    /\ compile_pointer \notin DOMAIN instructions
    /\ phase' = "done"
    /\ UNCHANGED <<machine_vars, header_vars, text, dis_pointer, visited, parse_vars, line_addresses,
                   compile_pointer, binary, tool_error>>

----------------------------------------------------------------------------
(* The tools on their inputs *)

\* Images the disassembler is run on: an instruction of every opcode, words
\* that are no opcode, and instructions whose last operands are missing.
DisPool ==
    { <<0>>, <<1, 32768, 10>>, <<2, 32767>>, <<3, 32769>>, <<4, 32768, 1, 1>>,
      <<5, 32768, 2, 1>>, <<6, 0>>, <<7, 1, 3>>, <<8, 0, 3>>, <<9, 32768, 32769, 4>>,
      <<10, 32768, 1, 2>>, <<11, 32768, 7, 3>>, <<12, 32768, 5, 6>>,
      <<13, 32768, 5, 6>>, <<14, 32768, 0>>, <<15, 32768, 0>>, <<16, 0, 21>>,
      <<17, 2>>, <<18>>, <<19, 65>>, <<20, 32775>>, <<21>>,
      <<22>>, <<42>>, <<32768>>, <<65535>>,
      <<1>>, <<1, 32768>>, <<9, 1, 2>>, <<19>> }

DisImages ==
    { <<>>, <<6, 3, 42, 0>> }
    \cup DisPool
    \cup { a \o b : a \in DisPool, b \in DisPool }

\* decompile on an image, then parse and compile on the text it wrote.
InitDis ==
    /\ MachineInit(DisImages, {<<>>})
    /\ ToolStart("decompile", <<>>)
    /\ HeaderNew

NextDis ==
    \/ DecompileStep
    \/ DecompileReturn
    \/ ParseLine
    \/ ParseReturn
    \/ CompileStep
    \/ CompileReturn

SpecDis == InitDis /\ [][NextDis]_vars

\* Source lines the assembler is run on: labels, pointer labels, symbolic
\* and literal operands, the data pseudo-op, comments and empty lines, wrong
\* operand counts and mnemonics that do not exist.
LinePool ==
    { <<<<"start", ":">>, <<"jmp">>, <<"end">>>>,
      <<<<"data">>, <<"4", "2">>>>,
      <<<<"data">>, <<"end">>>>,
      <<<<"end", ":">>, <<"halt">>>>,
      <<<<"end", ":">>>>,
      <<<<"0", ":">>, <<"noop">>>>,
      <<<<"0", ":">>>>,
      <<<<"2", ":">>, <<"out">>, <<"6", "5">>>>,
      <<<<"1", ":">>, <<"end", ":">>, <<"ret">>>>,
      <<<<"start", ":">>, <<"end", ":">>, <<"halt">>>>,
      <<<<"call">>, <<"start">>>>,
      <<<<"jt">>, <<"1">>, <<"end">>>>,
      <<<<"set">>, <<"3", "2", "7", "6", "8">>, <<"end">>>>,
      <<<<"mult">>, <<"3", "2", "7", "6", "8">>, <<"2">>, <<"3">>>>,
      <<<<"add">>, <<"3", "2", "7", "6", "8">>, <<"1">>, <<"2">>, <<"3">>>>,
      <<<<"push">>>>,
      <<<<"#", "note">>, <<"halt">>>>,
      <<<<"wmem">>, <<"end">>, <<"7">>, <<"#">>, <<"note">>>>,
      <<>> }

\* The source of the data scenario: start: jmp end / data 42 / end: halt.
DataScenario ==
    << <<<<"start", ":">>, <<"jmp">>, <<"end">>>>,
       <<<<"data">>, <<"4", "2">>>>,
       <<<<"end", ":">>, <<"halt">>>> >>

Sources ==
    { <<>> }
    \cup { <<a>> : a \in LinePool }
    \cup { <<a, b>> : a \in LinePool, b \in LinePool }
    \cup { <<a, b, c>> : a \in LinePool, b \in LinePool, c \in LinePool }

\* parse and compile on a source text (main.rs, compile).
InitAsm ==
    /\ MachineInit({<<>>}, {<<>>})
    /\ \E source \in Sources : ToolStart("parse", source)
    /\ HeaderNew

NextAsm ==
    \/ ParseLine
    \/ ParseReturn
    \/ CompileStep
    \/ CompileReturn

SpecAsm == InitAsm /\ [][NextAsm]_vars

\* The three cores side by side: the machine on one instruction of every
\* opcode, a branch taken, a branch not taken and a pop behind a push among
\* them, the disassembler with the assembler behind it, and the assembler on
\* sources.
SizeImages ==
    { a \o TailWords :
        a \in Pool \cup { <<7, 0, 5>>, <<8, 1, 5>>, <<8, 0, 5>>, <<2, 7, 3, 32768>> } }

InitSizes == InitOn(SizeImages, Inputs) \/ InitDis \/ InitAsm

NextSizes ==
    \/ Step
    \/ Interrupt
    \/ DecompileStep
    \/ DecompileReturn
    \/ ParseLine
    \/ ParseReturn
    \/ CompileStep
    \/ CompileReturn

SpecSizes == InitSizes /\ [][NextSizes]_vars

----------------------------------------------------------------------------
(* The header collection (src/runtime/debugger/header_collection.rs).  A   *)
(* header line is a sequence of characters; "CR" and "LF" stand for the    *)
(* carriage return and the line feed.                                      *)

IsWhitespace(g) == g \in {" ", "CR", "LF"}

RECURSIVE trim_start(_)
trim_start(s) ==
    IF s # <<>> /\ IsWhitespace(Head(s)) THEN trim_start(Tail(s)) ELSE s

RECURSIVE trim_end(_)
trim_end(s) ==
    IF s # <<>> /\ IsWhitespace(s[Len(s)]) THEN trim_end(SubSeq(s, 1, Len(s) - 1))
    ELSE s

\* str::trim.
trim(s) == trim_end(trim_start(s))

\* The index in s, from i on, of the first ": ", 0 when there is none.
RECURSIVE find_separator(_, _)
find_separator(s, i) ==
    IF i >= Len(s) THEN 0
    ELSE IF s[i] = ":" /\ s[i + 1] = " " THEN i
    ELSE find_separator(s, i + 1)

\* str::split(": "): the pieces between the separators, the empty ones
\* included.
RECURSIVE split(_)
split(s) ==
    IF find_separator(s, 1) = 0 THEN <<s>>
    ELSE <<SubSeq(s, 1, find_separator(s, 1) - 1)>>
         \o split(SubSeq(s, find_separator(s, 1) + 2, Len(s)))

\* self.0.insert(name, value).
header_insert(hc, name, value) ==
    [n \in DOMAIN hc \cup {name} |-> IF n = name THEN value ELSE hc[n]]

\* Mutant of header_added: a name already present gets the new value.
header_added_overwriting(hc, a) ==
    IF a[1] = <<>> THEN [ok |-> FALSE, err |-> "NoName", headers |-> hc]
    ELSE IF Len(a) < 2 THEN [ok |-> FALSE, err |-> "NoValue", headers |-> hc]
    ELSE [ok |-> TRUE, err |-> "", headers |-> header_insert(hc, a[1], a[2])]

\* Mutant of header_added: the name is inserted before the value is looked
\* for, with an empty value when there is none.
header_added_eagerly(hc, a) ==
    IF a[1] = <<>> THEN [ok |-> FALSE, err |-> "NoName", headers |-> hc]
    ELSE IF a[1] \in DOMAIN hc
    THEN [ok |-> FALSE, err |-> "AlreadyContains", headers |-> hc]
    ELSE IF Len(a) < 2
    THEN [ok |-> FALSE, err |-> "NoValue", headers |-> header_insert(hc, a[1], <<>>)]
    ELSE [ok |-> TRUE, err |-> "", headers |-> header_insert(hc, a[1], a[2])]

\* HeaderCollection::add on the pieces a of the line: the first piece is the
\* name, the second the value; the value is looked for before the insert.
header_added(hc, a) ==
    IF a[1] = <<>> THEN [ok |-> FALSE, err |-> "NoName", headers |-> hc]
    ELSE IF a[1] \in DOMAIN hc
    THEN [ok |-> FALSE, err |-> "AlreadyContains", headers |-> hc]
    ELSE IF Len(a) < 2 THEN [ok |-> FALSE, err |-> "NoValue", headers |-> hc]
    ELSE [ok |-> TRUE, err |-> "", headers |-> header_insert(hc, a[1], a[2])]

\* HeaderCollection::add.
header_add(hc, line) == header_added(hc, split(trim(line)))

\* HeaderCollection::get::<u16>: None is <<>>, Some(r) is <<r>>.
header_get(hc, name) ==
    IF name \in DOMAIN hc THEN <<parse_u16(hc[name])>> ELSE <<>>

\* HeaderCollection::clear.
header_clear(hc) == [n \in {} |-> <<>>]

\* Lines given to add: well-formed ones with and without line end and outer
\* blanks, a repeated name, a second separator, and lines without a name,
\* without a value and without a separator.
HeaderLines ==
    { <<"a", ":", " ", "1", "CR", "LF">>,
      <<"a", ":", " ", "2", "CR", "LF">>,
      <<" ", "b", ":", " ", "2", " ">>,
      <<"a", "b", ":", " ", "1", "2">>,
      <<"b", ":", " ", "1", ":", " ", "2">>,
      <<":", " ", "1", "CR", "LF">>,
      <<"a", ":", " ", "CR", "LF">>,
      <<"b">>,
      <<"CR", "LF">> }

HeaderNames == { <<"a">>, <<"b">>, <<"a", "b">>, <<"a", ":">>, <<>> }

\* The call hc.add(line) and what it returned as r.
header_called(line, r) ==
    /\ headers' = r.headers
    /\ header_history' =
          Append(header_history, [op |-> "add", line |-> line, ok |-> r.ok, err |-> r.err])
    /\ header_prev' = headers

HeaderAdd ==
    /\ phase = "headers"
    /\ Len(header_history) < MaxHeaderOps
    /\ \E line \in HeaderLines : header_called(line, header_add(headers, line))
    /\ UNCHANGED <<machine_vars, tool_vars>>

HeaderClear ==
    /\ phase = "headers"
    /\ Len(header_history) < MaxHeaderOps
    /\ headers' = header_clear(headers)
    /\ header_history' =
          Append(header_history, [op |-> "clear", line |-> <<>>, ok |-> TRUE, err |-> ""])
    /\ header_prev' = headers
    /\ UNCHANGED <<machine_vars, tool_vars>>

InitHeaders ==
    /\ MachineInit({<<>>}, {<<>>})
    /\ ToolStart("headers", <<>>)
    /\ HeaderNew

NextHeaders == HeaderAdd \/ HeaderClear

SpecHeaders == InitHeaders /\ [][NextHeaders]_vars

----------------------------------------------------------------------------
(* Vocabulary of the properties: the instruction the last step was taken   *)
(* on, read from the state on entry to it (prev), with the operand model   *)
(* of the design (literal / register / invalid).                           *)

Stepped == steps > 0

\* memory[a] on entry to the last step.
PrevWord(a) ==
    IF a \in DOMAIN prev.memory_changes THEN prev.memory_changes[a] ELSE memory[a]

InImage(a) == a \in DOMAIN memory

\* The word the last step fetched, -1 when pc was outside the image.
PrevOp == IF InImage(prev.pointer) THEN PrevWord(prev.pointer) ELSE -1

IsRegisterWord(w) == w \in 32768..32775

\* Operand k of the fetched instruction is present and is a register word.
IsRegisterOperand(k) ==
    InImage(prev.pointer + k) /\ IsRegisterWord(PrevWord(prev.pointer + k))

\* Operand k is present and is a literal or a register word.
IsValueOperand(k) ==
    InImage(prev.pointer + k) /\ PrevWord(prev.pointer + k) <= 32775

RegisterOf(k) == PrevWord(prev.pointer + k) - 32768

\* resolve of operand k on entry to the last step.
Resolve(k) ==
    LET w == PrevWord(prev.pointer + k) IN
    IF IsRegisterWord(w) THEN prev.registers[w - 32768] ELSE w

OthersUnchanged(r) == \A q \in 0..7 : q # r => registers[q] = prev.registers[q]

\* Number of operand words of each opcode (the handlers' Move sizes less one).
Arity(op) ==
    CASE op \in {0, 18, 21} -> 0
      [] op \in {2, 3, 6, 17, 19, 20} -> 1
      [] op \in {1, 7, 8, 14, 15, 16} -> 2
      [] OTHER -> 3

\* The opcode the last step dispatched on: the fetched word as get_number
\* resolves it, -1 when nothing was dispatched.
PrevDispatched ==
    IF ~InImage(prev.pointer) \/ PrevOp > 32775 THEN -1
    ELSE IF IsRegisterWord(PrevOp) THEN prev.registers[PrevOp - 32768]
    ELSE PrevOp

----------------------------------------------------------------------------
(* Claims C1 .. C10 *)

\* C1: in every state reached by stepping a fresh machine on any image, each
\* of the eight registers holds a value in 0..32767.
\* (Fails: rmem copies a raw memory word, which may exceed 32767.)
C1_RegistersInRange == \A r \in 0..7 : registers[r] \in 0..32767

\* C2: a step whose fetched word is outside 0..21 fails with UnknownOpcode and
\* executes nothing, whatever the registers hold.
\* (Fails: the fetched word goes through get_number, so a register word
\* dispatches on the register's content and a word above 32775 aborts.)
C2_UnknownOpcodeOnRawWord ==
    (Stepped /\ InImage(prev.pointer) /\ PrevOp \notin 0..21)
    => /\ step_result.ret = "Err"
       /\ step_result.err = "UnknownOpcode"
       /\ Snapshot = prev

\* The value the history of writes gives address a: that of the last wmem to
\* a, the image word when a was never written.
RECURSIVE LastWritten(_, _)
LastWritten(log, a) ==
    IF log = <<>> THEN memory[a]
    ELSE IF log[Len(log)][1] = a THEN log[Len(log)][2]
    ELSE LastWritten(SubSeq(log, 1, Len(log) - 1), a)

WrittenAddresses == { wlog[k][1] : k \in 1..Len(wlog) }

\* C3: a successful rmem of address a loads the value of the last successful
\* wmem to a, and the image word when a was never written, after any sequence
\* of writes.
C3_ReadYourWrites ==
    (Stepped /\ PrevOp = 15 /\ step_result.ret = "Ok(true)")
    => /\ IsRegisterOperand(1)
       /\ registers[RegisterOf(1)] = LastWritten(wlog, Resolve(2))
       /\ (Resolve(2) \notin WrittenAddresses
              => registers[RegisterOf(1)] = memory[Resolve(2)])

\* C3 witness: an rmem returned the second value written to an address whose
\* image word and first written value were different.
C3_Witness ==
    /\ Stepped /\ PrevOp = 15 /\ step_result.ret = "Ok(true)"
    /\ Len(wlog) >= 2
    /\ wlog[1][1] = Resolve(2) /\ wlog[2][1] = Resolve(2)
    /\ wlog[1][2] # wlog[2][2]
    /\ registers[RegisterOf(1)] = wlog[2][2]
    /\ registers[RegisterOf(1)] # memory[Resolve(2)]

\* C4: whenever add a b c executes (a a register word, b and c literal or
\* register words), the step completes, register a holds
\* (resolve(b) + resolve(c)) mod 32768 and pc advanced by 4.
\* (Fails: registers can hold words above 32767, see C1, and then the u16 sum
\* overflows.)
C4_AddNeverOverflows ==
    (Stepped /\ PrevOp = 9 /\ IsRegisterOperand(1)
        /\ IsValueOperand(2) /\ IsValueOperand(3))
    => /\ step_result.ret = "Ok(true)"
       /\ registers[RegisterOf(1)] = (Resolve(2) + Resolve(3)) % 32768
       /\ pointer = prev.pointer + 4

\* mult executed on a register destination with operand values in 0..32767.
MultCase ==
    /\ Stepped /\ PrevOp = 10 /\ IsRegisterOperand(1)
    /\ IsValueOperand(2) /\ IsValueOperand(3)
    /\ Resolve(2) \in 0..32767 /\ Resolve(3) \in 0..32767

\* C5 (as amended): mult a b c stores exactly (resolve(b) * resolve(c)) mod
\* 32768 into register a for all operand values in 0..32767, without wrapping
\* before the reduction; 30000 * 30000 gives 26880.
C5_MultModulo ==
    MultCase
    => /\ step_result.ret = "Ok(true)"
       /\ registers[RegisterOf(1)] = (Resolve(2) * Resolve(3)) % 32768
       /\ (Resolve(2) = 30000 /\ Resolve(3) = 30000
              => registers[RegisterOf(1)] = 26880)

\* C5 as stated: the same, with 30000 * 30000 giving 26624.
C5_Original ==
    MultCase
    => /\ step_result.ret = "Ok(true)"
       /\ registers[RegisterOf(1)] = (Resolve(2) * Resolve(3)) % 32768
       /\ (Resolve(2) = 30000 /\ Resolve(3) = 30000
              => registers[RegisterOf(1)] = 26624)

\* C5 witness: a mult whose product does not fit 16 bits has completed.
C5_Witness ==
    /\ MultCase /\ step_result.ret = "Ok(true)"
    /\ Resolve(2) * Resolve(3) > 65535
    /\ registers[RegisterOf(1)] = 26880

\* C6: ret on an empty stack halts cleanly: the step reports halted, run
\* returns success, and registers, memory and pc are unchanged.
C6_RetOnEmptyStackHalts ==
    (Stepped /\ PrevOp = 18 /\ prev.stack = <<>>)
    => /\ step_result.ret = "Ok(false)"
       /\ run_result = "Ok"
       /\ registers = prev.registers
       /\ memory_changes = prev.memory_changes
       /\ pointer = prev.pointer
       /\ stack = <<>>

\* C6 witness: a ret was reached by fall-through with nothing on the stack and
\* the run ended with success.
C6_Witness ==
    /\ Stepped /\ PrevOp = 18 /\ prev.stack = <<>>
    /\ prev.pointer > 0
    /\ step_result.ret = "Ok(false)" /\ run_result = "Ok"

\* C7: pop on an empty stack is a StackUnderflow error: the step returns the
\* error, no register is written and pc does not advance.
C7_PopOnEmptyStackFails ==
    (Stepped /\ PrevOp = 3 /\ prev.stack = <<>>)
    => /\ step_result.ret = "Err"
       /\ step_result.err = "StackEmpty"
       /\ run_result = "Err"
       /\ registers = prev.registers
       /\ pointer = prev.pointer

\* C7 witness: a pop with a register destination met an empty stack after the
\* stack had been used.
C7_Witness ==
    /\ Stepped /\ PrevOp = 3 /\ prev.stack = <<>> /\ IsRegisterOperand(1)
    /\ steps > 1
    /\ step_result.ret = "Err" /\ step_result.err = "StackEmpty"

CallRetImage == Img(<<17, 4, 0, 0, 18>>)

\* C8: call a at pc p pushes p + 2 and sets pc to resolve(a); ret on a
\* non-empty stack sets pc to the top entry and removes it, which restores the
\* stack of before the matching call; the image [17,4,0,0,18] halts cleanly at
\* pc 2 with an empty stack.
C8_CallRet ==
    /\ (Stepped /\ PrevOp = 17 /\ IsValueOperand(1))
       => /\ step_result.ret = "Ok(true)"
          /\ stack = Append(prev.stack, prev.pointer + 2)
          /\ pointer = Resolve(1)
    /\ (Stepped /\ PrevOp = 18 /\ prev.stack # <<>>)
       => /\ step_result.ret = "Ok(true)"
          /\ pointer = prev.stack[Len(prev.stack)]
          /\ Append(stack, pointer) = prev.stack
    /\ (memory = CallRetImage /\ running /\ steps >= 3)
       => /\ run_result = "Ok"
          /\ step_result.ret = "Ok(false)"
          /\ pointer = 2
          /\ stack = <<>>

\* C8 witness: the run of [17,4,0,0,18] has ended at pc 2 with an empty stack.
C8_Witness ==
    /\ memory = CallRetImage /\ run_result = "Ok" /\ running
    /\ steps = 3 /\ pointer = 2 /\ stack = <<>>
    /\ prev.pointer = 2

\* Index of the first byte of s that is not CR, 0 when there is none.
FirstNonCR(s) ==
    IF \E k \in 1..Len(s) : s[k] # 13
    THEN CHOOSE k \in 1..Len(s) : s[k] # 13 /\ \A j \in 1..(k - 1) : s[j] = 13
    ELSE 0

\* in executed while the input holds a byte that is not CR.
InCase == Stepped /\ PrevOp = 20 /\ FirstNonCR(prev.input) > 0

\* C9: in a consumes the input up to and including the first byte that is not
\* CR and nothing after it, stores that byte unchanged in register a and
\* advances pc by 2; input 13,10 leaves 10 in the register.
C9_InSkipsCR ==
    InCase
    => LET k == FirstNonCR(prev.input) IN
       /\ input = SubSeq(prev.input, k + 1, Len(prev.input))
       /\ IsRegisterOperand(1)
          => /\ step_result.ret = "Ok(true)"
             /\ registers[RegisterOf(1)] = prev.input[k]
             /\ OthersUnchanged(RegisterOf(1))
             /\ pointer = prev.pointer + 2
             /\ (k = 2 /\ prev.input[2] = 10 => registers[RegisterOf(1)] = 10)

\* C9 witness: in has read CR LF followed by a further byte, stored 10 and
\* left the further byte in the input.
C9_Witness ==
    /\ InCase /\ IsRegisterOperand(1)
    /\ prev.input = <<13, 10, 65>>
    /\ registers[RegisterOf(1)] = 10
    /\ input = <<65>>
    /\ step_result.ret = "Ok(true)"

\* C10: in at the end of input, met at once or after CR bytes only, halts
\* cleanly: the step reports halted, run returns success, and the registers
\* and pc are unchanged.
C10_InAtEofHalts ==
    (Stepped /\ PrevOp = 20 /\ FirstNonCR(prev.input) = 0)
    => /\ step_result.ret = "Ok(false)"
       /\ run_result = "Ok"
       /\ registers = prev.registers
       /\ pointer = prev.pointer

\* C10 witness: in consumed two CR bytes, met the end of input and halted.
C10_Witness ==
    /\ Stepped /\ PrevOp = 20
    /\ prev.input = <<13, 13>> /\ input = <<>>
    /\ step_result.ret = "Ok(false)" /\ run_result = "Ok"

----------------------------------------------------------------------------
(* Claims C11 .. C16 *)

\* C11: a step on an instruction one of whose operand words is 32776 or more
\* fails with an operand error, whatever the position of the operand, the
\* jump target of jt and jf included whichever way the condition evaluates.
\* (Fails: jt and jf read the target only when the jump is taken.)
C11_TooLargeOperandFails ==
    (/\ Stepped /\ PrevOp \in 0..21
     /\ \E k \in 1..Arity(PrevOp) :
            InImage(prev.pointer + k) /\ PrevWord(prev.pointer + k) >= 32776)
    => /\ step_result.ret = "Err"
       /\ step_result.err \in {"TooLarge", "NotARegister"}

\* C12: a step with pc at or beyond the image length fails with the
\* out-of-range error naming pc, changes nothing and ends the run with that
\* error; on [7,1,5,0,0,21] the third step is that failure at pc 6, and the
\* run never ends in success while the flag is set.
C12_StepPastEndFails ==
    /\ (Stepped /\ prev.pointer >= length_memory)
       => /\ step_result = [ret |-> "Err", err |-> "OutOfRange", at |-> prev.pointer]
          /\ Snapshot = prev
          /\ run_result = "Err"
    /\ (memory = Img(<<7, 1, 5, 0, 0, 21>>) /\ steps = 3)
       => /\ prev.pointer = 6 /\ pointer = 6
          /\ step_result.err = "OutOfRange"
          /\ run_result = "Err"
    /\ (memory = Img(<<7, 1, 5, 0, 0, 21>>) /\ running) => run_result # "Ok"

\* C12 witness: jt 1 5, noop at the last address, then the failed step at 6.
C12_Witness ==
    /\ memory = Img(<<7, 1, 5, 0, 0, 21>>)
    /\ steps = 3 /\ prev.pointer = 6
    /\ step_result.ret = "Err" /\ run_result = "Err"

\* C13: rmem and wmem on a resolved address at or beyond the image length
\* fail with the out-of-range error and change nothing, the overlay included;
\* the overlay never holds an address outside the image.
C13_MemoryBounds ==
    /\ DOMAIN memory_changes \subseteq DOMAIN memory
    /\ (Stepped /\ PrevOp = 15 /\ IsValueOperand(2) /\ Resolve(2) >= length_memory)
       => /\ step_result.ret = "Err" /\ step_result.err = "ReadOutOfRange"
          /\ Snapshot = prev
    /\ (/\ Stepped /\ PrevOp = 16 /\ IsValueOperand(1) /\ IsValueOperand(2)
        /\ Resolve(1) >= length_memory)
       => /\ step_result.ret = "Err" /\ step_result.err = "WriteOutOfRange"
          /\ Snapshot = prev

\* C13 witness: a wmem beyond the image failed after an earlier wmem had
\* filled the overlay, which is as it was.
C13_Witness ==
    /\ Stepped /\ PrevOp = 16 /\ IsValueOperand(1) /\ IsValueOperand(2)
    /\ Resolve(1) >= length_memory
    /\ step_result.err = "WriteOutOfRange"
    /\ DOMAIN memory_changes # {}
    /\ memory_changes = prev.memory_changes

\* C14: mod a b c with resolve(c) = 0 makes the step return an error naming
\* pc and writes no register; with resolve(c) # 0 it stores
\* resolve(b) mod resolve(c) and advances pc by 4.
\* (Fails: the remainder by zero aborts the process, no error is returned.)
C14_ModByZeroIsError ==
    (/\ Stepped /\ PrevOp = 11
     /\ IsRegisterOperand(1) /\ IsValueOperand(2) /\ IsValueOperand(3))
    => IF Resolve(3) = 0
       THEN /\ step_result.ret = "Err" /\ step_result.at = prev.pointer
            /\ registers = prev.registers
       ELSE /\ step_result.ret = "Ok(true)"
            /\ registers[RegisterOf(1)] = Resolve(2) % Resolve(3)
            /\ pointer = prev.pointer + 4

\* C15 (amended): after the flag is cleared at most one more step is taken;
\* once it is taken the run is over, with success when that step completed
\* and with the step's error when it failed.
C15_CancelBetweenSteps ==
    interrupted_at >= 0
    => /\ steps <= interrupted_at + 1
       /\ (steps = interrupted_at => run_result = "active" /\ ~running)
       /\ (steps = interrupted_at + 1
           => /\ run_result # "active"
              /\ (step_result.ret \in {"Ok(true)", "Ok(false)"} => run_result = "Ok")
              /\ (step_result.ret = "Err" => run_result = "Err"))

\* C15 as stated: the run that was cancelled returns success whenever the
\* step in progress returned.
C15_Original ==
    (interrupted_at >= 0 /\ steps = interrupted_at + 1 /\ step_result.ret # "Panic")
    => run_result = "Ok"

\* C15 witness: the flag was cleared, the step in progress completed with
\* more to execute, and the run returned success.
C15_Witness ==
    /\ interrupted_at >= 0 /\ steps = interrupted_at + 1
    /\ step_result.ret = "Ok(true)"
    /\ run_result = "Ok"

\* C16: a step extends the output exactly when it executes out successfully,
\* and then by the one character resolve(a), appended at the end; every other
\* step leaves the output as it was.
C16_OutputOnlyByOut ==
    Stepped
    => IF PrevDispatched = 19 /\ step_result.ret = "Ok(true)"
       THEN IsValueOperand(1) /\ output = Append(prev.output, Resolve(1))
       ELSE output = prev.output

\* C16 witness: two out instructions have run and the output holds their
\* two different characters in the order of execution.
C16_Witness ==
    /\ Stepped /\ PrevDispatched = 19
    /\ prev.output = <<65>> /\ output = <<65, 66>>

----------------------------------------------------------------------------
(* Claims C17 .. C20 *)

\* A tool has returned or aborted.
Finished == phase \in {"done", "failed", "panicked"}

\* The image from address p on is a sequence of complete instructions with
\* opcodes 0..21.
RECURSIVE CompleteFrom(_)
CompleteFrom(p) ==
    \/ p = length_memory
    \/ /\ p < length_memory
       /\ memory[p] \in 0..21
       /\ p + Arity(memory[p]) < length_memory
       /\ CompleteFrom(p + Arity(memory[p]) + 1)

\* C17: decompile fails on no image, an image whose last instruction lacks
\* operand words included; it visits strictly increasing addresses and
\* writes one line for each.
\* (Fails: a handler indexes the missing operand words and aborts.)
C17_DecompileTotal ==
    /\ tool_error.kind # "IndexOutOfBounds"
    /\ Len(text) = Len(visited)
    /\ \A j \in 1..Len(visited) : \A k \in 1..Len(visited) :
          j < k => visited[j] < visited[k]

\* C18: for an image of complete instructions with opcodes 0..21, parse and
\* compile accept the text decompile wrote and the bytes written are the
\* image, word for word.
\* (Fails: opcode 10 is printed as "mul", the assembler knows "mult".)
C18_RoundTrip ==
    (CompleteFrom(0) /\ Finished)
    => /\ phase = "done"
       /\ load_binary(binary) = ImageWords

\* C19: for every image the text decompile wrote is accepted line by line and
\* assembles to the image, words that are no opcode included.  Stated for
\* the images decompile finishes on and that hold no opcode 10.
\* (Fails: a word that is no opcode is printed as a bare number, which the
\* assembler reads as a mnemonic it does not know.)
C19_DataRoundTrip ==
    (/\ Finished
     /\ tool_error.kind # "IndexOutOfBounds"
     /\ \A k \in 1..Len(visited) : memory[visited[k]] # 10)
    => /\ phase = "done"
       /\ load_binary(binary) = ImageWords

\* C20: the line `data N` is accepted and emits the one word N, a data line
\* with a symbol is rejected, and start: jmp end / data 42 / end: halt
\* assembles to [6, 3, 42, 0] with end bound to 3.
\* (Fails: the assembler has no mnemonic "data".)
C20_DataWord ==
    /\ (text = <<<<<<"data">>, <<"4", "2">>>>>> /\ Finished)
       => phase = "done" /\ load_binary(binary) = <<42>>
    /\ (text = <<<<<<"data">>, <<"end">>>>>> /\ Finished) => phase = "failed"
    /\ (text = DataScenario /\ Finished)
       => /\ phase = "done"
          /\ load_binary(binary) = <<6, 3, 42, 0>>
          /\ <<"end">> \in DOMAIN labels /\ labels[<<"end">>] = 3

----------------------------------------------------------------------------
(* Vocabulary of the source language: line := [label] [mnemonic operand*]  *)
(* [comment].                                                              *)

\* The parts of a line in front of its comment.
RECURSIVE CodeParts(_)
CodeParts(line) ==
    IF line = <<>> \/ starts_with(Head(line), "#") THEN <<>>
    ELSE <<Head(line)>> \o CodeParts(Tail(line))

IsLabelToken(part) == ends_with(part, ":")

IsWord(part) == ~IsLabelToken(part)

LabelTokens(line) == SelectSeq(CodeParts(line), IsLabelToken)

\* The mnemonic and the operands of a line.
Words(line) == SelectSeq(CodeParts(line), IsWord)

Mnemonic(line) == Head(Words(line))

Operands(line) == Tail(Words(line))

\* The name a label token gives, the token without its ':'.
NameOf(token) == SubSeq(token, 1, Len(token) - 1)

\* The operand count of the instruction set for a mnemonic the assembler
\* knows.
MnemonicArity(m) == Arity(opcode_of(get_constructor(m)))

\* The words a line occupies in the output.
LineSize(line) ==
    IF Words(line) = <<>> THEN 0 ELSE 1 + MnemonicArity(Mnemonic(line))

\* The lines that define the name n.
LabelLines(n) ==
    { k \in 1..Len(text) :
        \E j \in 1..Len(LabelTokens(text[k])) : LabelTokens(text[k])[j] = Append(n, ":") }

\* The symbolic operands recorded: <<address of the instruction, position>>.
SymbolUses ==
    { u \in (DOMAIN instructions) \X (1..3) :
        /\ u[2] <= Len(instructions[u[1]].instruction.args)
        /\ instructions[u[1]].instruction.args[u[2]].kind = "Label" }

UseName(u) == instructions[u[1]].instruction.args[u[2]].name

\* parse has read every line and returned its Parsing.
Parsed == line_number > Len(text)

----------------------------------------------------------------------------
(* Claims C21 .. C24 *)

\* C21: once the source is swept, every symbolic operand is emitted as the
\* address of the line that defines its name, before or after the use, and
\* translation fails with the undefined-label error exactly when a name used
\* is defined by no line.  (Names defined on several lines are left aside.)
\* (Fails: a symbol in any position but a jump or memory target is rejected
\* as "must be a literal", defined or not.)
C21_SymbolsResolved ==
    (Finished /\ Parsed)
    => IF \E u \in SymbolUses : LabelLines(UseName(u)) = {}
       THEN phase = "failed" /\ tool_error.kind = "UndefinedLabel"
       ELSE /\ phase = "done"
            /\ \A u \in SymbolUses : \A l \in LabelLines(UseName(u)) :
                  Cardinality(LabelLines(UseName(u))) = 1
                  => load_binary(binary)[u[1] + u[2] + 1] = line_addresses[l]

\* A line whose one label token is a pointer label, and the number it gives.
OnlyPointerLabel(k) ==
    /\ Len(LabelTokens(text[k])) = 1
    /\ parse_u16(NameOf(LabelTokens(text[k])[1])).ok

PointerValue(k) == parse_u16(NameOf(LabelTokens(text[k])[1])).val

\* C22: a pointer label N: is refused, with the pointer-label error naming
\* the line, exactly when the running address at its line differs from N; it
\* puts no name in the label table and leaves the running address to the
\* mnemonic of its line.
C22_PointerLabel ==
    /\ \A n \in DOMAIN labels : ~parse_u16(n).ok
    /\ \A k \in 1..Len(line_addresses) :
          OnlyPointerLabel(k)
          => /\ PointerValue(k) # line_addresses[k]
                => phase = "failed" /\ tool_error = [kind |-> "PointerLabel", line |-> k]
             /\ PointerValue(k) = line_addresses[k]
                => ~(tool_error.kind = "PointerLabel" /\ tool_error.line = k)
             /\ k < Len(line_addresses)
                => line_addresses[k + 1] = line_addresses[k] + LineSize(text[k])

\* C22 witness: of the lines 0: / 0: noop / 2: out 65 the first two were
\* accepted at address 0, the first leaving the address where it was, and
\* the third was refused at address 1; the label table is empty.
C22_Witness ==
    /\ line_addresses = <<0, 0, 1>>
    /\ OnlyPointerLabel(1) /\ Words(text[1]) = <<>>
    /\ OnlyPointerLabel(2)
    /\ OnlyPointerLabel(3) /\ PointerValue(3) = 2
    /\ phase = "failed" /\ tool_error = [kind |-> "PointerLabel", line |-> 3]
    /\ DOMAIN labels = {}

\* C23: a line with more than one label token, symbolic or pointer, is
\* rejected.
\* (Fails: a pointer label leaves the line's label unset, so a label token
\* after it is accepted.)
C23_OneLabelPerLine ==
    \A k \in 1..Len(line_addresses) :
        Len(LabelTokens(text[k])) > 1
        => phase = "failed" /\ tool_error.line = k

\* C24: a line whose operand count differs from the arity of its mnemonic
\* makes parse return the arity error, four operands or more included.
\* (Fails: the fourth operand is stored beyond the array of three and the
\* process aborts.)
C24_ArityChecked ==
    \A k \in 1..Len(line_addresses) :
        (/\ Words(text[k]) # <<>>
         /\ get_constructor(Mnemonic(text[k])) # ""
         /\ LabelTokens(text[k]) = <<>>
         /\ Len(Operands(text[k])) # MnemonicArity(Mnemonic(text[k])))
        => phase = "failed" /\ tool_error = [kind |-> "Arity", line |-> k]

----------------------------------------------------------------------------
(* Claims C25 .. C26 *)

HelloImage == Img(<<9, 32768, 32769, 4, 19, 32768, 0>>)

\* A run of the hello image that was started with reg[1] = 5 as the only
\* register not zero (the image writes register 0 only), was not cancelled
\* and has returned.
HelloRun ==
    /\ memory = HelloImage
    /\ registers[1] = 5 /\ \A r \in 2..7 : registers[r] = 0
    /\ interrupted_at = -1
    /\ run_result # "active"

\* C25 (amended): the hello image started with reg[1] = 5 sets reg[0] to
\* 5 + 4 = 9, writes the one character 9 and halts cleanly at the halt.
C25_HelloDigit ==
    HelloRun
    => /\ run_result = "Ok" /\ step_result.ret = "Ok(false)"
       /\ registers[0] = 9
       /\ output = <<9>>
       /\ steps = 3 /\ pointer = 6

\* C25 as stated: reg[0] becomes 5 and the one byte written is 0x05.
C25_Original ==
    HelloRun => (run_result = "Ok" /\ registers[0] = 5 /\ output = <<5>>)

\* C25 witness: the run of the hello image has halted with the output 9.
C25_Witness == HelloRun /\ run_result = "Ok" /\ output = <<9>>

\* The opcodes that write a register: set, pop, eq, gt, add, mult, mod, and,
\* or, not, rmem, in.
Writers == {1, 3, 4, 5, 9, 10, 11, 12, 13, 14, 15, 20}

\* The fetched instruction obtains the value it is to store: its source
\* operands resolve, the stack or the input supplies a word, the address of
\* rmem is in the image, the sum and the remainder are formed.
ValueObtained ==
    CASE PrevOp \in {1, 14} -> IsValueOperand(2)
      [] PrevOp \in {4, 5, 10, 12, 13} -> IsValueOperand(2) /\ IsValueOperand(3)
      [] PrevOp = 9 ->
           /\ IsValueOperand(2) /\ IsValueOperand(3)
           /\ ~(overflow_checks /\ Resolve(2) + Resolve(3) >= U16)
      [] PrevOp = 11 -> IsValueOperand(2) /\ IsValueOperand(3) /\ Resolve(3) # 0
      [] PrevOp = 3 -> prev.stack # <<>>
      [] PrevOp = 15 -> IsValueOperand(2) /\ InImage(Resolve(2))
      [] PrevOp = 20 -> FirstNonCR(prev.input) # 0

WriterStep == Stepped /\ PrevOp \in Writers /\ InImage(prev.pointer + 1)

\* C26 (amended): a register-writing instruction whose destination word is
\* 32768 + k changes no register but k; with any other destination word it
\* does not complete and changes no register, and when it obtained the value
\* to store the step fails with the not-a-register error.
C26_DestinationIsRegister ==
    WriterStep
    => IF IsRegisterOperand(1)
       THEN OthersUnchanged(RegisterOf(1))
       ELSE /\ registers = prev.registers
            /\ step_result.ret # "Ok(true)"
            /\ ValueObtained
               => step_result.ret = "Err" /\ step_result.err = "NotARegister"

\* C26 as stated: with a destination word that is no register the step fails
\* with the not-a-register error, whatever else the instruction meets.
C26_Original ==
    (WriterStep /\ ~IsRegisterOperand(1))
    => /\ step_result.ret = "Err" /\ step_result.err = "NotARegister"
       /\ registers = prev.registers

\* C26 witness: pop with a literal as destination took a word off the stack
\* and failed with the not-a-register error.
C26_Witness ==
    /\ WriterStep /\ PrevOp = 3 /\ ~IsRegisterOperand(1)
    /\ prev.stack # <<>>
    /\ step_result.ret = "Err" /\ step_result.err = "NotARegister"
    /\ registers = prev.registers

----------------------------------------------------------------------------
(* Claims C27 .. C28 *)

\* The name and the value a line gives to add.
NameGiven(line) == split(trim(line))[1]

HasValue(line) == Len(split(trim(line))) >= 2

ValueGiven(line) == split(trim(line))[2]

\* The last call of clear in the history, 0 when there was none.
LastClear ==
    IF \E k \in 1..Len(header_history) : header_history[k].op = "clear"
    THEN CHOOSE k \in 1..Len(header_history) :
            /\ header_history[k].op = "clear"
            /\ \A j \in (k + 1)..Len(header_history) : header_history[j].op # "clear"
    ELSE 0

\* The successful calls of add for the name n since the last clear.
SuccessfulAdds(n) ==
    { k \in (LastClear + 1)..Len(header_history) :
        /\ header_history[k].op = "add" /\ header_history[k].ok
        /\ NameGiven(header_history[k].line) = n }

FirstAdd(n) == CHOOSE k \in SuccessfulAdds(n) : \A j \in SuccessfulAdds(n) : k <= j

\* The last call was add.
LastAdd ==
    /\ header_history # <<>>
    /\ header_history[Len(header_history)].op = "add"

LastCall == header_history[Len(header_history)]

\* C27: get(name) yields the value of the first successful add of the name
\* since the last clear, and nothing when there was none; add succeeds for a
\* line with a name and a value exactly when the name is not present, so a
\* name present is refused and after clear every name is accepted again.
C27_FirstAddWins ==
    /\ \A n \in HeaderNames :
          header_get(headers, n) =
             IF SuccessfulAdds(n) = {} THEN <<>>
             ELSE <<parse_u16(ValueGiven(header_history[FirstAdd(n)].line))>>
    /\ LastAdd /\ NameGiven(LastCall.line) # <<>> /\ HasValue(LastCall.line)
       => (LastCall.ok <=> NameGiven(LastCall.line) \notin DOMAIN header_prev)
    /\ LastAdd /\ NameGiven(LastCall.line) \in DOMAIN header_prev
       => ~LastCall.ok /\ LastCall.err = "AlreadyContains"

\* C27 witness: a: 1 was added, a: 2 refused, the collection cleared and
\* a: 2 added; get("a") yields 2.
C27_Witness ==
    /\ Len(header_history) = 4
    /\ header_history[1].ok /\ NameGiven(header_history[1].line) = <<"a">>
    /\ ValueGiven(header_history[1].line) = <<"1">>
    /\ header_history[2].op = "add" /\ header_history[2].err = "AlreadyContains"
    /\ header_history[3].op = "clear"
    /\ header_history[4].ok /\ ValueGiven(header_history[4].line) = <<"2">>
    /\ header_get(headers, <<"a">>) = <<Ok(2)>>

\* The line, trimmed, has no ": " or nothing after it.
NoValueAfterSeparator(line) ==
    \/ find_separator(trim(line), 1) = 0
    \/ find_separator(trim(line), 1) + 2 > Len(trim(line))

\* C28: add fails for a line without a name and for a line without a value
\* after the separator, and a call of add that fails, for either reason or
\* for a name already present, leaves the collection as it was.
C28_FailedAddChangesNothing ==
    LastAdd
    => /\ NameGiven(LastCall.line) = <<>> => ~LastCall.ok /\ LastCall.err = "NoName"
       /\ NoValueAfterSeparator(LastCall.line) => ~LastCall.ok
       /\ ~LastCall.ok => headers = header_prev

\* C28 witness: a collection that holds a header refused a line with a new
\* name and no value, and is as it was.
C28_Witness ==
    /\ LastAdd /\ ~LastCall.ok /\ LastCall.err = "NoValue"
    /\ DOMAIN header_prev # {}
    /\ NameGiven(LastCall.line) \notin DOMAIN header_prev
    /\ headers = header_prev

----------------------------------------------------------------------------
(* Claim C29 *)

\* The last step executed an instruction that went on to the next one: no
\* halt, no jump, call or return, and no branch that was taken.
FellThrough ==
    /\ phase = "run" /\ Stepped /\ step_result.ret = "Ok(true)"
    /\ PrevDispatched \in (0..21) \ {0, 6, 17, 18}
    /\ PrevDispatched = 7 => Resolve(1) = 0
    /\ PrevDispatched = 8 => Resolve(1) # 0

\* The address behind entry k of a list of addresses visited in turn, the
\* last one being followed by the address now.
Following(addresses, k, now) ==
    IF k < Len(addresses) THEN addresses[k + 1] ELSE now

\* C29: the machine goes on by 1 + the operand count of the opcode when the
\* instruction falls through, the assembler adds 1 + the operand count of
\* the opcode of the mnemonic to its address for every line it accepts, and
\* the disassembler advances by 1 + the operand count on an opcode and by 1
\* on any other word.
C29_SizesAgree ==
    /\ FellThrough => pointer = prev.pointer + 1 + Arity(PrevDispatched)
    /\ \A k \in 1..Len(line_addresses) :
          k < line_number
          => Following(line_addresses, k, parse_pointer)
                = line_addresses[k] + LineSize(text[k])
    /\ \A k \in 1..Len(visited) :
          Following(visited, k, dis_pointer)
             = visited[k] + (IF memory[visited[k]] \in 0..21
                             THEN 1 + Arity(memory[visited[k]]) ELSE 1)

\* C29 witness: the disassembler went from the add at 0 to the word 42 at 4
\* and on to 5, and the assembler read the line of the add at 0 and the next
\* line at 4.
C29_Witness ==
    /\ visited = <<0, 4>> /\ dis_pointer = 5
    /\ memory[0] = 9 /\ memory[4] = 42
    /\ line_addresses = <<0, 4>>

----------------------------------------------------------------------------
(* Claim C30 *)

\* The address a was written by wmem before the last step; Overlaid(a) is
\* the word it holds since.
IsOverlaid(a) == Stepped /\ a \in DOMAIN prev.memory_changes

Overlaid(a) == prev.memory_changes[a]

\* A step whose pc was written decoded the written word: a noop went on by
\* one word and changed nothing else, a halt halted, a pop on an empty stack
\* failed; an operand that was written is read as written: out prints it and
\* jmp goes to it.
C30_ReadsOverlay ==
    /\ IsOverlaid(prev.pointer) /\ Overlaid(prev.pointer) = 21
       => /\ step_result.ret = "Ok(true)" /\ pointer = prev.pointer + 1
          /\ registers = prev.registers /\ stack = prev.stack
          /\ memory_changes = prev.memory_changes /\ output = prev.output
    /\ IsOverlaid(prev.pointer) /\ Overlaid(prev.pointer) = 0
       => step_result.ret = "Ok(false)" /\ pointer = prev.pointer
    /\ IsOverlaid(prev.pointer) /\ Overlaid(prev.pointer) = 3 /\ prev.stack = <<>>
       => step_result.ret = "Err"
    /\ IsOverlaid(prev.pointer + 1) /\ Overlaid(prev.pointer + 1) <= 32767
       /\ PrevDispatched = 19
       => /\ step_result.ret = "Ok(true)"
          /\ output = Append(prev.output, Overlaid(prev.pointer + 1))
    /\ IsOverlaid(prev.pointer + 1) /\ Overlaid(prev.pointer + 1) <= 32767
       /\ PrevDispatched = 6
       => pointer = Overlaid(prev.pointer + 1)

\* C30: the opcode and the operands of a step are read through the overlay,
\* so that a word written by wmem is what a later step at that address
\* executes and what a later operand read at that address yields, and no
\* step changes the image or its length.
C30_FetchThroughOverlay == [](C30_ReadsOverlay) /\ [][memory' = memory]_vars

\* C30 witness: wmem 0 21 overwrote its own opcode, jmp 0 went back to it
\* and the step at 0 executed the noop that was written.
C30_Witness ==
    /\ steps = 3 /\ memory[0] = 16 /\ prev.pointer = 0
    /\ IsOverlaid(0) /\ Overlaid(0) = 21
    /\ step_result.ret = "Ok(true)" /\ pointer = 1
    /\ wlog = <<<<0, 21>>>>

----------------------------------------------------------------------------
(* Claims C31 .. C34 *)

\* C31: a step that returns an error leaves the registers, the stack, the
\* overlay and pc as they were on entry to the step.
\* (Fails: pop takes the value off the stack before it finds that the
\* destination is no register, and call pushes the return address before it
\* resolves its target.)
C31_FailingStepAtomic ==
    Stepped /\ step_result.ret = "Err"
    => /\ registers = prev.registers
       /\ stack = prev.stack
       /\ memory_changes = prev.memory_changes
       /\ pointer = prev.pointer

\* The last step reported 'halted'.
Halted == Stepped /\ step_result.ret = "Ok(false)"

\* A step taken after a step that reported 'halted' reports 'halted' and
\* leaves the machine as it was.
HaltedAgain ==
    step_result.ret = "Ok(false)"
    => /\ step_result'.ret = "Ok(false)"
       /\ UNCHANGED <<memory, memory_changes, registers, stack, pointer>>

\* C32: a step that reports 'halted' leaves pc at the instruction it
\* executed, and every step of the same machine after it reports 'halted'
\* again and changes neither registers nor stack nor memory nor pc.
C32_HaltStays ==
    /\ [](Halted => pointer = prev.pointer)
    /\ [][HaltedAgain]_vars

\* C32 witness: the ret at 0 met an empty stack and reported 'halted', and
\* so did the second step, taken at 0 again.
C32_Witness ==
    /\ InImage(0) /\ memory[0] = 18 /\ steps = 2
    /\ step_result.ret = "Ok(false)"
    /\ prev.pointer = 0 /\ pointer = 0 /\ stack = <<>>

\* The part is a symbol, not a number.
IsSymbol(part) == ~parse_u16(part).ok

\* A line the assembler has no reason to refuse: at most one label token,
\* and that a name; a mnemonic it knows with as many operands as it takes,
\* symbols only where the address of a jump or of a memory access stands.
WellFormedLine(line) ==
    /\ Len(LabelTokens(line)) <= 1
    /\ \A j \in 1..Len(LabelTokens(line)) : IsSymbol(NameOf(LabelTokens(line)[j]))
    /\ Words(line) # <<>>
       => /\ get_constructor(Mnemonic(line)) # ""
          /\ Len(Operands(line)) = MnemonicArity(Mnemonic(line))
          /\ \A j \in 1..Len(Operands(line)) :
                IsSymbol(Operands(line)[j])
                => /\ j = target_argument(get_constructor(Mnemonic(line)))
                   /\ LabelLines(Operands(line)[j]) # {}

WellFormed == \A k \in 1..Len(text) : WellFormedLine(text[k])

\* The name n is defined on several lines.
Redefined(n) == Cardinality(LabelLines(n)) > 1

LastLine(n) == CHOOSE k \in LabelLines(n) : \A j \in LabelLines(n) : j <= k

\* C33: a source that is well formed but for names defined on several lines
\* is assembled; the label table holds for such a name the address of the
\* last line that defines it, and every operand that names it, before or
\* after its definitions, is emitted as that address.
C33_LastDefinitionWins ==
    (WellFormed /\ Finished)
    => /\ phase = "done"
       /\ \A n \in DOMAIN labels :
             Redefined(n) => labels[n] = line_addresses[LastLine(n)]
       /\ \A u \in SymbolUses :
             Redefined(UseName(u))
             => load_binary(binary)[u[1] + u[2] + 1]
                   = line_addresses[LastLine(UseName(u))]

\* C33 witness: start: jmp end / end: halt / end: halt is assembled to
\* [6, 3, 0, 0]: the jump in front of both definitions goes to the second.
C33_Witness ==
    /\ text = << <<<<"start", ":">>, <<"jmp">>, <<"end">>>>,
                 <<<<"end", ":">>, <<"halt">>>>,
                 <<<<"end", ":">>, <<"halt">>>> >>
    /\ phase = "done"
    /\ labels[<<"end">>] = 3
    /\ load_binary(binary) = <<6, 3, 0, 0>>

\* The output holds the word v, low byte first, as its word number w
\* (counted from 0).
HoldsWord(w, v) ==
    /\ 2 * w + 2 <= Len(binary)
    /\ binary[2 * w + 1] = v % 256
    /\ binary[2 * w + 2] = v \div 256

\* The words of the instruction recorded at the address a: the opcode, then
\* each operand, a symbol as the address the label table gives it.
HoldsInstruction(a) ==
    /\ HoldsWord(a, opcode_of(instructions[a].instruction.variant))
    /\ \A j \in 1..Len(instructions[a].instruction.args) :
          /\ instructions[a].instruction.args[j].kind = "Label"
             => instructions[a].instruction.args[j].name \in DOMAIN labels
          /\ HoldsWord(a + j, word_of(instructions[a].instruction.args[j], labels))

\* The output is the instructions recorded below the address k, each at its
\* address, and nothing else.
HoldsBelow(k) ==
    /\ Len(binary) = 2 * k
    /\ \A a \in DOMAIN instructions : a < k => HoldsInstruction(a)

\* compile returned an error at the instruction it had reached.
CompileFailed ==
    /\ Parsed /\ phase = "failed"
    /\ tool_error.kind \in {"UndefinedLabel", "MustBeLiteral"}

\* C34: when compile fails at the instruction recorded at k, the output
\* holds the encodings of the instructions below k in address order and
\* nothing of k or behind it; when compile succeeds it holds every
\* instruction recorded, once, in address order.
C34_OutputUpToFailure ==
    /\ CompileFailed
       => /\ compile_pointer \in DOMAIN instructions
          /\ tool_error.line = instructions[compile_pointer].line_number
          /\ HoldsBelow(compile_pointer)
    /\ phase = "done"
       => /\ \A a \in DOMAIN instructions : a < parse_pointer
          /\ HoldsBelow(parse_pointer)

\* C34 witness: compile wrote the noop and the halt recorded at 0 and 1 and
\* failed at the call of an undefined name recorded at 2.
C34_Witness ==
    /\ CompileFailed /\ tool_error.kind = "UndefinedLabel"
    /\ compile_pointer = 2
    /\ binary = <<21, 0, 0, 0>>

====
